---- MODULE Spec2Model ----
(***************************************************************************)
(* Model of the local-SEO analyzer of src/server.js: the handler of        *)
(* GET /api/analyze, LocalSEOAnalyzer.analyzeWebsite and                   *)
(* LocalSEOAnalyzer.checkGBP.                                              *)
(*                                                                         *)
(* A JavaScript string is a sequence of one-character strings, so that     *)
(* length, startsWith, includes, toLowerCase, trim, split and the regular  *)
(* expressions of the code are computed as the code computes them.  The    *)
(* fixed message texts of the code are sequences of text chunks; string    *)
(* concatenation is \o in both cases.                                      *)
(***************************************************************************)
EXTENDS Integers, Sequences, FiniteSets, TLC

(***************************************************************************)
(* Strings                                                                 *)
(***************************************************************************)
UpperChars == <<"A", "B", "C", "D", "E", "F", "G", "H", "I", "J", "K", "L", "M",
                "N", "O", "P", "Q", "R", "S", "T", "U", "V", "W", "X", "Y", "Z">>

LowerChars == <<"a", "b", "c", "d", "e", "f", "g", "h", "i", "j", "k", "l", "m",
                "n", "o", "p", "q", "r", "s", "t", "u", "v", "w", "x", "y", "z">>

DigitChars == {"0", "1", "2", "3", "4", "5", "6", "7", "8", "9"}

SpaceChars == {" ", "\t", "\n"}

Range(s) == {s[i] : i \in DOMAIN s}

SetMin(S) == CHOOSE x \in S : \A y \in S : x <= y

SetMax(S) == CHOOSE x \in S : \A y \in S : x >= y

IsDigit(c) == c \in DigitChars

IsSpace(c) == c \in SpaceChars

IsAlnum(c) == c \in Range(UpperChars) \cup Range(LowerChars) \cup DigitChars

LowerOf == [c \in Range(UpperChars) |->
              LowerChars[CHOOSE i \in DOMAIN UpperChars : UpperChars[i] = c]]

toLowerChar(c) == IF c \in DOMAIN LowerOf THEN LowerOf[c] ELSE c

\* String.prototype.toLowerCase
toLowerCase(s) == <<>> \o [i \in 1..Len(s) |-> toLowerChar(s[i])]

\* String.prototype.startsWith
startsWith(s, t) == Len(s) >= Len(t) /\ SubSeq(s, 1, Len(t)) = t

\* s has t at (1-based) position i
HasAt(s, t, i) == i >= 1 /\ i + Len(t) - 1 <= Len(s) /\ SubSeq(s, i, i + Len(t) - 1) = t

\* a search that does not find the empty string
includesNonEmpty(s, t) == t # <<>> /\ \E i \in 1..Len(s) : HasAt(s, t, i)

\* String.prototype.includes: the empty string is included in every string
includes(s, t) == \E i \in 1..(Len(s) + 1) : HasAt(s, t, i)

\* String.prototype.trim
trim(s) ==
    LET keep == {i \in DOMAIN s : ~IsSpace(s[i])}
    IN  IF keep = {} THEN <<>> ELSE SubSeq(s, SetMin(keep), SetMax(keep))

\* String.prototype.split with a one-character separator: the sequence of segments
RECURSIVE split(_, _)
split(s, sep) ==
    LET at == {i \in DOMAIN s : s[i] = sep}
    IN  IF at = {} THEN <<s>>
        ELSE <<SubSeq(s, 1, SetMin(at) - 1)>> \o split(SubSeq(s, SetMin(at) + 1, Len(s)), sep)

\* s.replace(/[^a-zA-Z0-9\s]/g, '')
RECURSIVE stripPunctuation(_)
stripPunctuation(s) ==
    IF s = <<>> THEN <<>>
    ELSE IF IsAlnum(Head(s)) \/ IsSpace(Head(s))
         THEN <<Head(s)>> \o stripPunctuation(Tail(s))
         ELSE stripPunctuation(Tail(s))

EntitySuffixes == {<<"i", "n", "c">>, <<"l", "l", "c">>, <<"c", "o", "r", "p">>}

\* s.replace(/inc|llc|corp/g, ''): leftmost matches, scanned left to right
RECURSIVE stripSuffixes(_)
stripSuffixes(s) ==
    IF s = <<>> THEN <<>>
    ELSE IF \E t \in EntitySuffixes : HasAt(s, t, 1)
         THEN LET t == CHOOSE u \in EntitySuffixes : HasAt(s, u, 1)
              IN  stripSuffixes(SubSeq(s, Len(t) + 1, Len(s)))
         ELSE <<Head(s)>> \o stripSuffixes(Tail(s))

\* n copies of the character c
Repeat(c, n) == <<>> \o [i \in 1..n |-> c]

(***************************************************************************)
(* Regular expressions of the local checks                                 *)
(***************************************************************************)
AllDigits(s, from, to) == \A k \in from..to : k \in DOMAIN s /\ IsDigit(s[k])

IsPhoneSep(c) == c \in {"-", "."}

\* \d{3}[-.]\d{4} at position i
MatchesLocalNumber(s, i) ==
    /\ i + 7 <= Len(s)
    /\ AllDigits(s, i, i + 2)
    /\ IsPhoneSep(s[i + 3])
    /\ AllDigits(s, i + 4, i + 7)

\* \(\d{3}\)\s*\d{3}[-.]\d{4} at position i
MatchesParenPhone(s, i) ==
    /\ i + 4 <= Len(s)
    /\ s[i] = "("
    /\ AllDigits(s, i + 1, i + 3)
    /\ s[i + 4] = ")"
    /\ \E j \in (i + 5)..Len(s) :
          /\ \A k \in (i + 5)..(j - 1) : IsSpace(s[k])
          /\ MatchesLocalNumber(s, j)

\* \d{3}[-.]\d{3}[-.]\d{4} at position i
MatchesPlainPhone(s, i) ==
    /\ i + 3 <= Len(s)
    /\ AllDigits(s, i, i + 2)
    /\ IsPhoneSep(s[i + 3])
    /\ MatchesLocalNumber(s, i + 4)

\* /\(\d{3}\)\s*\d{3}[-.]\d{4}|\d{3}[-.]\d{3}[-.]\d{4}/.test(html)
hasPhone(html) ==
    \E i \in DOMAIN html : MatchesParenPhone(html, i) \/ MatchesPlainPhone(html, i)

StreetTypes ==
    {<<"s", "t", "r", "e", "e", "t">>,
     <<"s", "t">>,
     <<"a", "v", "e", "n", "u", "e">>,
     <<"a", "v", "e">>,
     <<"r", "o", "a", "d">>,
     <<"r", "d">>,
     <<"d", "r", "i", "v", "e">>,
     <<"d", "r">>}

\* /\d+\s+[^,]+(?:street|st|avenue|ave|road|rd|drive|dr)/i.test(html): a match
\* exists iff some digit is followed by a space, then by one or more characters
\* none of which is a comma (the rest of \s+ is matched by [^,]+ as well), then
\* by a street type in any case
hasAddress(html) ==
    LET lower == toLowerCase(html)
    IN  \E i \in DOMAIN html :
            /\ IsDigit(html[i])
            /\ i + 1 <= Len(html)
            /\ IsSpace(html[i + 1])
            /\ \E m \in (i + 3)..Len(html) :
                  /\ \A k \in (i + 2)..(m - 1) : html[k] # ","
                  /\ \E t \in StreetTypes : HasAt(lower, t, m)

\* the check passing on any structured-data marker
hasLocalSchemaAnyMarker(lowerHtml) ==
    \/ includes(lowerHtml, <<"l", "o", "c", "a", "l", "b", "u", "s", "i", "n", "e", "s", "s">>)
    \/ includes(lowerHtml, <<"\"", "@", "t", "y", "p", "e", "\"">>)
    \/ includes(lowerHtml, <<"s", "c", "h", "e", "m", "a", ".", "o", "r", "g">>)

\* lowerHtml.includes('localbusiness') || lowerHtml.includes('"@type": "localbusiness"')
hasLocalSchema(lowerHtml) ==
    \/ includes(lowerHtml, <<"l", "o", "c", "a", "l", "b", "u", "s", "i", "n", "e", "s", "s">>)
    \/ includes(lowerHtml, <<"\"", "@", "t", "y", "p", "e", "\"", ":", " ", "\"", "l", "o", "c", "a", "l", "b", "u", "s", "i", "n", "e", "s", "s", "\"">>)

\* lowerHtml.includes('"@type"') || lowerHtml.includes('schema.org')
hasSchema(lowerHtml) ==
    \/ includes(lowerHtml, <<"\"", "@", "t", "y", "p", "e", "\"">>)
    \/ includes(lowerHtml, <<"s", "c", "h", "e", "m", "a", ".", "o", "r", "g">>)

\* $('body').text().split(/\s+/).filter(w => w.length > 0).length: the number
\* of maximal runs of non-space characters
wordCount(text) ==
    Cardinality({i \in DOMAIN text :
                    ~IsSpace(text[i]) /\ (i = 1 \/ IsSpace(text[i - 1]))})

(***************************************************************************)
(* The fetched document: response.data (html) and what the cheerio         *)
(* selections of lines 39-44 return for it, before the code's own trim,    *)
(* default and word split.  meta is <<>> when the attribute is undefined   *)
(* and <<content>> otherwise.                                              *)
(***************************************************************************)
TitleMinLen == 30

TitleMaxLen == 60

MetaMinLen == 120

MetaMaxLen == 160

MinWords == 300

\* lines 38-46
pageData(doc) ==
    [title           |-> trim(doc.title),
     metaDescription |-> IF doc.meta = <<>> THEN <<>> ELSE doc.meta[1],
     h1s             |-> <<>> \o [i \in 1..Len(doc.h1s) |-> trim(doc.h1s[i])],
     images          |-> doc.images,
     imagesWithAlt   |-> doc.imagesWithAlt,
     wordCount       |-> wordCount(doc.bodyText),
     hasSchema       |-> hasSchema(toLowerCase(doc.html))]

trimLower(p) == toLowerCase(trim(p))

\* line 48
locationParts(location) ==
    LET parts == split(location, ",")
    IN  <<>> \o [i \in 1..Len(parts) |-> trimLower(parts[i])]

\* line 49
cityOf(location) == locationParts(location)[1]

(***************************************************************************)
(* Issues.  priority, category and issue are texts that are only compared  *)
(* whole; fix is concatenated from chunks and the city.                    *)
(***************************************************************************)
Issue(p, c, i, f) == [priority |-> p, category |-> c, issue |-> i, fix |-> f]

\* the title band without its ends
onPageChecksTitleStrict(pd, city) ==
    [titleOptimized |-> Len(pd.title) > TitleMinLen /\ Len(pd.title) < TitleMaxLen,
     titleHasCity   |-> includes(toLowerCase(pd.title), city),
     metaPresent    |-> Len(pd.metaDescription) > 0,
     metaOptimized  |-> Len(pd.metaDescription) >= MetaMinLen
                        /\ Len(pd.metaDescription) <= MetaMaxLen,
     h1Present      |-> Len(pd.h1s) = 1,
     h1HasCity      |-> \E k \in DOMAIN pd.h1s : includes(toLowerCase(pd.h1s[k]), city),
     contentLength  |-> pd.wordCount >= MinWords]

\* lines 52-60
onPageChecks(pd, city) ==
    [titleOptimized |-> Len(pd.title) >= TitleMinLen /\ Len(pd.title) <= TitleMaxLen,
     titleHasCity   |-> includes(toLowerCase(pd.title), city),
     metaPresent    |-> Len(pd.metaDescription) > 0,
     metaOptimized  |-> Len(pd.metaDescription) >= MetaMinLen
                        /\ Len(pd.metaDescription) <= MetaMaxLen,
     h1Present      |-> Len(pd.h1s) = 1,
     h1HasCity      |-> \E k \in DOMAIN pd.h1s : includes(toLowerCase(pd.h1s[k]), city),
     contentLength  |-> pd.wordCount >= MinWords]

\* the content check worth 10 points instead of 15
onPageScoreContent10(c) ==
      (IF c.titleOptimized THEN 20 ELSE 0)
    + (IF c.titleHasCity THEN 20 ELSE 0)
    + (IF c.metaOptimized THEN 15 ELSE 0)
    + (IF c.h1Present THEN 15 ELSE 0)
    + (IF c.h1HasCity THEN 15 ELSE 0)
    + (IF c.contentLength THEN 10 ELSE 0)

\* lines 62-80, the points
onPageScore(c) ==
      (IF c.titleOptimized THEN 20 ELSE 0)
    + (IF c.titleHasCity THEN 20 ELSE 0)
    + (IF c.metaOptimized THEN 15 ELSE 0)
    + (IF c.h1Present THEN 15 ELSE 0)
    + (IF c.h1HasCity THEN 15 ELSE 0)
    + (IF c.contentLength THEN 15 ELSE 0)

\* the Meta issue with the priority medium whether or not there is a
\* description
onPageIssuesMetaMedium(c, pd, city) ==
       (IF c.titleOptimized THEN <<>>
        ELSE <<Issue("high", "Title", "Title not optimized",
                     <<"Keep title 30-60 characters">>)>>)
    \o (IF c.titleHasCity THEN <<>>
        ELSE <<Issue("critical", "Local SEO", "Title missing city",
                     <<"Add \"">> \o city \o <<"\" to title tag">>)>>)
    \o (IF c.metaOptimized THEN <<>>
        ELSE <<Issue("medium", "Meta", "Meta description not optimized",
                     <<"Keep meta 120-160 characters">>)>>)
    \o (IF c.h1Present THEN <<>>
        ELSE <<Issue("high", "H1",
                     IF Len(pd.h1s) = 0 THEN "Missing H1" ELSE "Multiple H1s",
                     <<"Use exactly one H1">>)>>)
    \o (IF c.h1HasCity THEN <<>>
        ELSE <<Issue("critical", "H1 Local", "H1 missing city",
                     <<"Add \"">> \o city \o <<"\" to your H1">>)>>)
    \o (IF c.contentLength THEN <<>>
        ELSE <<Issue("medium", "Content", "Thin content",
                     <<"Add more content (500+ words)">>)>>)

\* lines 62-80, the pushes, in the order of the code
onPageIssues(c, pd, city) ==
       (IF c.titleOptimized THEN <<>>
        ELSE <<Issue("high", "Title", "Title not optimized",
                     <<"Keep title 30-60 characters">>)>>)
    \o (IF c.titleHasCity THEN <<>>
        ELSE <<Issue("critical", "Local SEO", "Title missing city",
                     <<"Add \"">> \o city \o <<"\" to title tag">>)>>)
    \o (IF c.metaOptimized THEN <<>>
        ELSE IF Len(pd.metaDescription) > 0
             THEN <<Issue("medium", "Meta", "Meta description not optimized",
                          <<"Keep meta 120-160 characters">>)>>
             ELSE <<Issue("high", "Meta", "Missing meta description",
                          <<"Add compelling meta description">>)>>)
    \o (IF c.h1Present THEN <<>>
        ELSE <<Issue("high", "H1",
                     IF Len(pd.h1s) = 0 THEN "Missing H1" ELSE "Multiple H1s",
                     <<"Use exactly one H1">>)>>)
    \o (IF c.h1HasCity THEN <<>>
        ELSE <<Issue("critical", "H1 Local", "H1 missing city",
                     <<"Add \"">> \o city \o <<"\" to your H1">>)>>)
    \o (IF c.contentLength THEN <<>>
        ELSE <<Issue("medium", "Content", "Thin content",
                     <<"Add more content (500+ words)">>)>>)

\* lines 86-91
localChecks(html, city) ==
    [cityInContent  |-> includes(toLowerCase(html), city),
     hasPhone       |-> hasPhone(html),
     hasAddress     |-> hasAddress(html),
     hasLocalSchema |-> hasLocalSchema(toLowerCase(html))]

\* the city worth 25 points, as the other two local checks
localScoreCity25(c) ==
      (IF c.cityInContent THEN 25 ELSE 0)
    + (IF c.hasPhone /\ c.hasAddress THEN 25 ELSE 0)
    + (IF c.hasLocalSchema THEN 25 ELSE 0)

\* the 25 points given for a phone number or an address
localScoreNapEither(c) ==
      (IF c.cityInContent THEN 30 ELSE 0)
    + (IF c.hasPhone \/ c.hasAddress THEN 25 ELSE 0)
    + (IF c.hasLocalSchema THEN 25 ELSE 0)

\* lines 93-101, the points
localScore(c) ==
      (IF c.cityInContent THEN 30 ELSE 0)
    + (IF c.hasPhone /\ c.hasAddress THEN 25 ELSE 0)
    + (IF c.hasLocalSchema THEN 25 ELSE 0)

\* lines 93-101, the pushes
localIssues(c, city) ==
       (IF c.cityInContent THEN <<>>
        ELSE <<Issue("critical", "Content", "Missing city in content",
                     <<"Mention \"">> \o city \o <<"\" 3-5 times">>)>>)
    \o (IF c.hasPhone /\ c.hasAddress THEN <<>>
        ELSE <<Issue("critical", "NAP", "Missing NAP",
                     <<"Add phone + address to footer">>)>>)
    \o (IF c.hasLocalSchema THEN <<>>
        ELSE <<Issue("high", "Schema", "No LocalBusiness schema",
                     <<"Add JSON-LD schema markup">>)>>)

\* a technical sub-score without its floor of 50
techScoreNoFloor(u) == IF startsWith(u, <<"h", "t", "t", "p", "s">>) THEN 85 ELSE 0

\* line 107
techScore(u) == IF startsWith(u, <<"h", "t", "t", "p", "s">>) THEN 85 ELSE 50

\* line 108
techIssues(u) ==
    IF ~startsWith(u, <<"h", "t", "t", "p", "s">>)
    THEN <<Issue("critical", "Security", "Not HTTPS", <<"Install SSL certificate">>)>>
    ELSE <<>>

\* Math.min(100, x)
clamp100(x) == IF x < 100 THEN x ELSE 100

(***************************************************************************)
(* Aggregation                                                             *)
(***************************************************************************)
\* The weights of line 118, in hundredths
WeightOnPage == 30

WeightLocal == 35

WeightTechnical == 15

WeightGbp == 20

\* Math.floor in place of Math.round
overallScoreFloor(s) ==
    (s.onPage * WeightOnPage + s.local * WeightLocal
        + s.technical * WeightTechnical + s.gbp * WeightGbp) \div 100

\* the weights taken as 30, 35, 15 and 20 instead of 0.3, 0.35, 0.15 and 0.2
overallScoreUnscaled(s) ==
    s.onPage * WeightOnPage + s.local * WeightLocal
        + s.technical * WeightTechnical + s.gbp * WeightGbp

\* line 118.  Math.round rounds half up; on every combination of sub-scores
\* the checks can produce, the sum of the four double-precision products
\* rounds to the same integer as the exact sum of hundredths does.
overallScore(s) ==
    (s.onPage * WeightOnPage + s.local * WeightLocal
        + s.technical * WeightTechnical + s.gbp * WeightGbp + 50) \div 100

IsCritical(i) == i.priority = "critical"

\* the recommendation without the search for a critical issue
topRecommendationFirstIssue(issues) ==
    IF Len(issues) > 0 THEN <<"Next: ">> \o issues[1].fix
    ELSE <<"Great job! Get more reviews to improve rankings.">>

\* lines 121-128
topRecommendation(issues) ==
    LET critical == SelectSeq(issues, IsCritical)
    IN  IF Len(critical) > 0 THEN <<"Priority: ">> \o critical[1].fix
        ELSE IF Len(issues) > 0 THEN <<"Next: ">> \o issues[1].fix
        ELSE <<"Great job! Get more reviews to improve rankings.">>

\* the listing entry pushed first
whatsWorkingGbpFirst(onPage, local, gbp) ==
       (IF gbp.found THEN <<"GBP is active">> ELSE <<>>)
    \o (IF onPage.titleHasCity THEN <<"Title includes city">> ELSE <<>>)
    \o (IF local.cityInContent THEN <<"Content has location">> ELSE <<>>)
    \o (IF local.hasLocalSchema THEN <<"Schema markup present">> ELSE <<>>)

\* lines 131-134
whatsWorking(onPage, local, gbp) ==
       (IF onPage.titleHasCity THEN <<"Title includes city">> ELSE <<>>)
    \o (IF local.cityInContent THEN <<"Content has location">> ELSE <<>>)
    \o (IF local.hasLocalSchema THEN <<"Schema markup present">> ELSE <<>>)
    \o (IF gbp.found THEN <<"GBP is active">> ELSE <<>>)

ZeroScores == [overall |-> 0, onPage |-> 0, local |-> 0, technical |-> 0, gbp |-> 0]

\* googleBusinessProfile: null
Null == [null |-> TRUE]

\* lines 13-23
newResults(u, businessName, location, now) ==
    [url                   |-> u,
     businessName          |-> businessName,
     location              |-> location,
     analyzedAt            |-> now,
     scores                |-> ZeroScores,
     issues                |-> <<>>,
     opportunities         |-> <<>>,
     whatsWorking          |-> <<>>,
     topRecommendation     |-> <<>>,
     checks                |-> <<>>,
     googleBusinessProfile |-> Null]

\* the catch of the headless-browser revision: the message alone
errorReportNoScores(message) == [error |-> message]

\* a catch that reports a fixed text instead of error.message
errorReportGeneric(message) == [error |-> "Analysis failed", scores |-> ZeroScores]

\* line 138
errorReport(message) == [error |-> message, scores |-> ZeroScores]

\* line 26
defaultScheme(u) == IF ~startsWith(u, <<"h", "t", "t", "p">>) THEN <<"h", "t", "t", "p", "s", ":", "/", "/">> \o u ELSE u

\* lines 34-109: the results once the checks have run on the fetched document
runChecks(r, doc, u, city) ==
    LET pd     == pageData(doc)
        onPage == onPageChecks(pd, city)
        local  == localChecks(doc.html, city)
    IN  [r EXCEPT
            !.issues = r.issues \o onPageIssues(onPage, pd, city)
                                \o localIssues(local, city) \o techIssues(u),
            !.scores = [r.scores EXCEPT !.onPage    = clamp100(onPageScore(onPage)),
                                        !.local     = clamp100(localScore(local)),
                                        !.technical = techScore(u)],
            !.checks = [onPage |-> onPage, local |-> local]]

GbpIssue == Issue("critical", "GBP", "GBP not found", <<"Verify GBP is claimed">>)

\* the GBP issue put at the head of the list (unshift) instead of pushed
finishGbpFirst(r, gbp) ==
    LET scores == [r.scores EXCEPT !.gbp = IF gbp.found THEN 100 ELSE 0]
        issues == IF ~gbp.found THEN <<GbpIssue>> \o r.issues ELSE r.issues
    IN  [r EXCEPT
            !.googleBusinessProfile = gbp,
            !.scores = [scores EXCEPT !.overall = overallScore(scores)],
            !.issues = issues,
            !.topRecommendation = topRecommendation(issues),
            !.whatsWorking = whatsWorking(r.checks.onPage, r.checks.local, gbp)]

\* lines 113-136: the results once checkGBP has returned gbp
finish(r, gbp) ==
    LET scores == [r.scores EXCEPT !.gbp = IF gbp.found THEN 100 ELSE 0]
        issues == IF ~gbp.found THEN Append(r.issues, GbpIssue) ELSE r.issues
    IN  [r EXCEPT
            !.googleBusinessProfile = gbp,
            !.scores = [scores EXCEPT !.overall = overallScore(scores)],
            !.issues = issues,
            !.topRecommendation = topRecommendation(issues),
            !.whatsWorking = whatsWorking(r.checks.onPage, r.checks.local, gbp)]

(***************************************************************************)
(* checkGBP                                                                *)
(***************************************************************************)
\* a test for an unset key only: GOOGLE_PLACES_API_KEY === undefined
noApiKeyUnsetOnly(key) == key = <<>>

\* line 143: !GOOGLE_PLACES_API_KEY.  The key is <<>> when the environment
\* variable is unset and <<value>> when it is set.
noApiKey(key) == key = <<>> \/ key[1] = <<>>

\* lines 147-151
gbpQueries(businessName, city) ==
    <<businessName \o <<" ">> \o city,
      stripPunctuation(businessName) \o <<" ">> \o city,
      trim(stripSuffixes(toLowerCase(businessName))) \o <<" ">> \o city>>

\* line 159: response.data.results && response.data.results.length > 0
hasResults(data) == "results" \in DOMAIN data /\ Len(data.results) > 0

\* lines 160-167
foundPlace(data) ==
    LET place == data.results[1]
    IN  [found   |-> TRUE,
         name    |-> place.name,
         rating  |-> place.rating,
         reviews |-> place.user_ratings_total,
         address |-> place.formatted_address]

\* line 170
NotFound == [found |-> FALSE]

\* lines 143 and 172
notFoundError(message) == [found |-> FALSE, error |-> message]

(***************************************************************************)
(* Inputs: requests, fetched documents, listing responses                  *)
(***************************************************************************)
ParamNames == {"url", "businessName", "location"}

Urls ==
    {<<"a", ".", "c", "o">>,
     <<"h", "t", "t", "p", ":", "/", "/", "a", ".", "c", "o">>,
     <<"h", "t", "t", "p", "s", ":", "/", "/", "a", ".", "c", "o">>,
     <<"h", "t", "t", "p", ".", "c", "o">>}

BusinessNames == {<<"J", "'", "s", " ", "I", "n", "c">>}

Locations == {<<"L", "a", "n", ",", " ", "P", "A">>, <<",", " ", "P", "A">>}

\* req.query: a parameter is absent, empty or one of the values above
ParamValues(name) ==
    {<<>>} \cup (CASE name = "url" -> Urls
                   [] name = "businessName" -> BusinessNames
                   [] name = "location" -> Locations)

Queries ==
    UNION {{q \in [S -> UNION {ParamValues(n) : n \in ParamNames}] :
               \A n \in S : q[n] \in ParamValues(n)} : S \in SUBSET ParamNames}

\* new Date().toISOString() at the start of an analysis
Timestamps == {"2026-01-05T09:00:00.000Z", "2026-01-05T09:00:20.000Z"}

\* the time of an analysis that is not compared with another one
AnalysisTime == "2026-01-05T09:00:00.000Z"

\* process.env.GOOGLE_PLACES_API_KEY: unset, empty or set
ApiKeys == {<<>>, <<<<>>>>, <<<<"K">>>>}

CityText == <<"L", "a", "n">>

TitleOf(n, withCity) ==
    <<" ">> \o (IF withCity THEN CityText ELSE <<"x", "y", "z">>) \o Repeat("x", n - 3) \o <<"\n">>

\* The fixtures of each field of a document, in tables; a document is named by
\* its five indices, and DocOf gives its content.
TitleTable ==
    <<TitleOf(TitleMaxLen, TRUE), TitleOf(TitleMaxLen + 1, FALSE),
      TitleOf(TitleMinLen - 1, TRUE), TitleOf(TitleMinLen, FALSE)>>

\* descriptions of 120, 119, 160 and 161 characters, no description (2) and
\* a content attribute that is the empty string (6)
MetaTable ==
    <<<<Repeat("m", MetaMinLen)>>, <<>>, <<Repeat("m", MetaMinLen - 1)>>,
      <<Repeat("m", MetaMaxLen)>>, <<Repeat("m", MetaMaxLen + 1)>>, <<<<>>>>>>

H1Table ==
    <<<<<<" ", "L", "a", "n", " ", "p", "l", "u", "m", "b", "i", "n", "g", " ">>>>, <<>>, <<<<"P", "l", "u", "m", "b", "i", "n", "g">>>>, <<<<"P", "l", "u", "m", "b", "i", "n", "g">>, <<"I", "n", " ", "L", "A", "N">>>>>>

\* n words separated by single spaces
WordsOf(n) == <<>> \o [i \in 1..(2 * n - 1) |-> IF i % 2 = 1 THEN "w" ELSE " "]

BodyTable == <<WordsOf(MinWords), WordsOf(MinWords - 1)>>

HtmlTable ==
    <<<<"L", "A", "N", " ", "(", "7", "1", "7", ")", "5", "5", "5", ".", "0", "1", "0", "0", " ", "9", " ", "O", "a", "k", " ", "R", "o", "a", "d", " ", "{", "\"", "@", "t", "y", "p", "e", "\"", ":", " ", "\"", "L", "o", "c", "a", "l", "B", "u", "s", "i", "n", "e", "s", "s", "\"", "}">>,
      <<"<", "p", ">", "h", "i", "<", "/", "p", ">">>,
      <<"7", "1", "7", ".", "5", "5", "5", ".", "0", "1", "0", "0">>,
      <<"1", "2", " ", "E", "l", "m", " ", "S", "t">>,
      <<"L", "a", "n", " ", "(", "7", "1", "7", ")", " ", "5", "5", "5", "-", "0", "1", "0", "0", ",", " ", "1", "2", " ", "E", "l", "m", " ", "S", "t">>,
      <<"s", "c", "h", "e", "m", "a", ".", "o", "r", "g">>,
      <<"{", "\"", "@", "t", "y", "p", "e", "\"", ":", " ", "\"", "L", "o", "c", "a", "l", "B", "u", "s", "i", "n", "e", "s", "s", "\"", "}", " ", "l", "a", "n">>,
      <<"7", "1", "7", ".", "5", "5", "5", ".", "0", "1", "0", "0", " ", "1", "2", " ", "E", "l", "m", " ", "S", "t">>,
      <<"{", "\"", "@", "t", "y", "p", "e", "\"", ":", " ", "\"", "S", "t", "o", "r", "e", "\"", "}">>,
      <<"7", "1", "7", ".", "5", "5", "5", ".", "0", "1", "0", "0", " ", "1", "2", " ", "E", "l", "m", " ", "S", "t", " ", "L", "o", "c", "a", "l", "B", "u", "s", "i", "n", "e", "s", "s">>>>

DocFields == {"html", "title", "meta", "h1s", "bodyText"}

FieldTable(f) ==
    CASE f = "html" -> HtmlTable
      [] f = "title" -> TitleTable
      [] f = "meta" -> MetaTable
      [] f = "h1s" -> H1Table
      [] f = "bodyText" -> BodyTable

AllDocs == {d \in [DocFields -> 1..Len(HtmlTable)] :
               \A f \in DocFields : d[f] \in DOMAIN FieldTable(f)}

\* response.data and the cheerio selections of the document d
DocOf(d) ==
    [html |-> HtmlTable[d.html], title |-> TitleTable[d.title], meta |-> MetaTable[d.meta],
     h1s |-> H1Table[d.h1s], images |-> 2, imagesWithAlt |-> 1,
     bodyText |-> BodyTable[d.bodyText]]

\* the document on which every check passes, and one on which every check fails
GoodDoc == [html |-> 1, title |-> 1, meta |-> 1, h1s |-> 1, bodyText |-> 1]

BadDoc == [html |-> 2, title |-> 2, meta |-> 2, h1s |-> 2, bodyText |-> 2]

Diff(d, e) == Cardinality({f \in DocFields : d[f] # e[f]})

\* the fetched documents differ from GoodDoc or from BadDoc in at most
\* MaxDiff of the five fields
MaxDiff == 1

Docs == {d \in AllDocs : Diff(d, GoodDoc) <= MaxDiff \/ Diff(d, BadDoc) <= MaxDiff}

\* no document fetched yet
NoDoc == [html |-> 0, title |-> 0, meta |-> 0, h1s |-> 0, bodyText |-> 0]

EmptyDoc ==
    [html |-> <<>>, title |-> <<>>, meta |-> <<>>, h1s |-> <<>>, images |-> 0,
     imagesWithAlt |-> 0, bodyText |-> <<>>]

SchemeHttp == <<"h", "t", "t", "p", ":", "/", "/">>

SchemeHttps == <<"h", "t", "t", "p", "s", ":", "/", "/">>

\* the URL u with the other of the two schemes
otherScheme(u) ==
    IF startsWith(u, SchemeHttps)
    THEN SchemeHttp \o SubSeq(u, Len(SchemeHttps) + 1, Len(u))
    ELSE IF startsWith(u, SchemeHttp)
    THEN SchemeHttps \o SubSeq(u, Len(SchemeHttp) + 1, Len(u))
    ELSE u

\* lines 28-32, maxRedirects: the URLs the response to a request of u can come
\* from: u itself, or, when u is an http:// URL, the same address under
\* https:// after a redirect
FinalUrls(u) == {u} \cup (IF startsWith(u, SchemeHttp) THEN {otherScheme(u)} ELSE {})

\* what axios.get rejects with: error.message
FetchErrors ==
    {"timeout of 20000ms exceeded", "Request failed with status code 500",
     "getaddrinfo ENOTFOUND a.co"}

\* response.data when axios has parsed the body as JSON into a value that is
\* not a string: an object, a number or null
NonTextData == {"object", "number", "null"}

\* line 35: the message of the TypeError html.toLowerCase() throws on it
toLowerCaseError(data) ==
    IF data = "null" THEN "Cannot read properties of null (reading 'toLowerCase')"
    ELSE "html.toLowerCase is not a function"

QueryErrors == {"timeout of 5000ms exceeded", "Request failed with status code 403"}

Places ==
    {[name |-> "J's Plumbing", rating |-> 45, user_ratings_total |-> 12,
      formatted_address |-> "12 Elm St, Lan, PA"],
     [name |-> "Joe's Pizza", rating |-> 38, user_ratings_total |-> 7,
      formatted_address |-> "9 Oak Road, Lan, PA"]}

\* the longest result set of a listing response
MaxPlaces == 2

RECURSIVE SeqsUpTo(_, _)
SeqsUpTo(S, n) ==
    IF n = 0 THEN {<<>>}
    ELSE LET shorter == SeqsUpTo(S, n - 1)
         IN  shorter \cup {Append(s, x) : s \in shorter, x \in S}

\* response.data of the places text search: with or without a results array
PlacesData ==
    {[status |-> "REQUEST_DENIED"]}
        \cup {[status |-> "OK", results |-> r] : r \in SeqsUpTo(Places, MaxPlaces)}

(***************************************************************************)
(* The server: one request of GET /api/analyze at a time                   *)
(***************************************************************************)
VARIABLES
    pc,          \* "idle", "fetching" (awaiting the page), "lookup" (awaiting a
                 \* listing query), "responded"
    apiKey,      \* GOOGLE_PLACES_API_KEY, read once at process start
    query,       \* req.query of the request being handled
    url,         \* analyzeWebsite's url, after line 26
    results,     \* analyzeWebsite's results object
    doc,         \* the fetched document (its indices in the fixture tables)
    fetched,     \* the page fetch: "none", "pending", "ok", "failed" or, when
                 \* the body that arrived is not text, "nottext"
    fetchError,  \* the message of the error the page fetch rejected with, or ""
    fetchLog,    \* the URLs axios.get was called with for the page
    finalUrl,    \* the URL the page was served from once axios had followed the
                 \* redirects (response.request.res.responseUrl), <<>> before
    lookup,      \* checkGBP: "none" (not called), "nokey", "pending", "found",
                 \* "empty" (every query answered without a result) or "error"
    queries,     \* checkGBP's queries
    qi,          \* index of the listing query in flight
    gbpLog,      \* the queries sent to the places API
    res,         \* the HTTP response: status 0 until it is sent
    reqs,        \* the requests in progress when several are handled at once:
                 \* for each, what its handler invocation holds
    headless     \* the revision that fetches with a headless browser
                 \* (src/unnamed/part_000): its analysis in progress and the
                 \* browser instances of the process

vars ==
    <<pc, apiKey, query, url, results, doc, fetched, fetchError, fetchLog, finalUrl,
      lookup, queries, qi, gbpLog, res, reqs, headless>>

NoResponse == [status |-> 0, body |-> Null]

\* the requests that are handled at the same time
Requests == {"r1", "r2"}

\* a request that has not arrived: nothing of it exists in the server
IdleRequest ==
    [pc |-> "idle", query |-> <<>>, now |-> "", url |-> <<>>, results |-> Null,
     fetched |-> "none", doc |-> NoDoc, fetchError |-> "", lookup |-> "none",
     queries |-> <<>>, qi |-> 0, answers |-> <<>>, res |-> NoResponse]

\* the headless-browser revision at rest: no analysis in progress, no
\* browser instance in the process
IdleBrowser ==
    [pc |-> "idle", browser |-> "none", open |-> 0, html |-> <<>>, title |-> <<>>,
     results |-> Null, ret |-> Null]

Init ==
    /\ pc = "idle"
    /\ apiKey \in ApiKeys
    /\ query = <<>>
    /\ url = <<>>
    /\ results = Null
    /\ doc = NoDoc
    /\ fetched = "none"
    /\ fetchError = ""
    /\ fetchLog = <<>>
    /\ finalUrl = <<>>
    /\ lookup = "none"
    /\ queries = <<>>
    /\ qi = 0
    /\ gbpLog = <<>>
    /\ res = NoResponse
    /\ reqs = [i \in Requests |-> IdleRequest]
    /\ headless = IdleBrowser

\* the validation without its third operand
missingFieldsNoLocation(q) ==
    \E n \in {"url", "businessName"} : n \notin DOMAIN q \/ q[n] = <<>>

\* line 179: !url || !businessName || !location
missingFields(q) ==
    \E n \in ParamNames : n \notin DOMAIN q \/ q[n] = <<>>

IsUndefined(q, n) == n \notin DOMAIN q

\* a parameter as a string; undefined concatenates as "undefined"
param(q, n) == IF IsUndefined(q, n) THEN <<"undefined">> ELSE q[n]

TypeErrorMessage == "Cannot read properties of undefined"

\* res.status(s).json(body)
respond(s, body) ==
    /\ res' = [status |-> s, body |-> body]
    /\ pc' = "responded"

\* lines 177-184 and 12-32: the handler up to the first await
Analyze(q, now) ==
    /\ pc = "idle"
    /\ UNCHANGED <<reqs, headless>>
    /\ query' = q
    /\ doc' = NoDoc
    /\ queries' = <<>>
    /\ qi' = 0
    /\ gbpLog' = <<>>
    /\ fetchError' = ""
    /\ lookup' = "none"
    /\ finalUrl' = <<>>
    /\ UNCHANGED apiKey
    /\ IF missingFields(q)
       THEN /\ respond(400, [error |-> "Missing required fields"])
            /\ url' = <<>>
            /\ results' = Null
            /\ fetched' = "none"
            /\ fetchLog' = <<>>
       ELSE /\ results' = newResults(param(q, "url"), param(q, "businessName"),
                                     param(q, "location"), now)
            /\ IF IsUndefined(q, "url")
               THEN /\ respond(200, errorReport(TypeErrorMessage))
                    /\ url' = <<>>
                    /\ fetched' = "none"
                    /\ fetchLog' = <<>>
               ELSE /\ url' = defaultScheme(q["url"])
                    /\ fetchLog' = <<url'>>
                    /\ fetched' = "pending"
                    /\ pc' = "fetching"
                    /\ res' = NoResponse

\* a fetch whose rejection is swallowed: the checks run on an empty document
\* and checkGBP is called
FetchFailsThenLooksUp(message) ==
    /\ pc = "fetching"
    /\ UNCHANGED <<reqs, finalUrl, headless>>
    /\ fetched' = "failed"
    /\ fetchError' = message
    /\ UNCHANGED <<apiKey, query, url, doc, fetchLog>>
    /\ LET city    == cityOf(param(query, "location"))
           checked == runChecks(results, EmptyDoc, url, city)
       IN  IF noApiKey(apiKey)
           THEN /\ results' = finish(checked, notFoundError("No API key"))
                /\ lookup' = "nokey"
                /\ respond(200, results')
                /\ UNCHANGED <<queries, qi, gbpLog>>
           ELSE /\ results' = checked
                /\ queries' = gbpQueries(param(query, "businessName"), city)
                /\ qi' = 1
                /\ gbpLog' = <<queries'[1]>>
                /\ lookup' = "pending"
                /\ pc' = "lookup"
                /\ UNCHANGED res

\* analyzeWebsite without its try: the rejection of axios.get leaves the
\* handler, which sends no response
FetchFailsUncaught(message) ==
    /\ pc = "fetching"
    /\ UNCHANGED <<reqs, finalUrl, headless>>
    /\ fetched' = "failed"
    /\ fetchError' = message
    /\ pc' = "fault"
    /\ UNCHANGED <<apiKey, query, url, results, doc, fetchLog, lookup, queries, qi, gbpLog,
                   res>>

\* lines 28-32 reject, line 138, line 185
FetchFails(message) ==
    /\ pc = "fetching"
    /\ UNCHANGED <<reqs, finalUrl, headless>>
    /\ fetched' = "failed"
    /\ fetchError' = message
    /\ respond(200, errorReport(message))
    /\ UNCHANGED <<apiKey, query, url, results, doc, fetchLog, lookup, queries, qi, gbpLog>>

\* a catch that returns the results object at hand with the message added
\* to it
FetchSucceedsNotTextPartial(data) ==
    /\ pc = "fetching"
    /\ UNCHANGED <<reqs, finalUrl, headless>>
    /\ fetched' = "nottext"
    /\ respond(200, [error |-> toLowerCaseError(data)] @@ results)
    /\ UNCHANGED <<apiKey, query, url, results, doc, fetchError, fetchLog, lookup, queries,
                   qi, gbpLog>>

\* lines 28-35, 138 and 185: the body that arrives is not a string, so
\* html.toLowerCase() throws before any check has run
FetchSucceedsNotText(data) ==
    /\ pc = "fetching"
    /\ UNCHANGED <<reqs, finalUrl, headless>>
    /\ fetched' = "nottext"
    /\ respond(200, errorReport(toLowerCaseError(data)))
    /\ UNCHANGED <<apiKey, query, url, results, doc, fetchError, fetchLog, lookup, queries,
                   qi, gbpLog>>

\* the aggregation of lines 118-134 done before the listing lookup has
\* returned: overall, topRecommendation and whatsWorking are computed as soon
\* as the checks have run, while the first query is in flight
FetchSucceedsAggregatesEarly(d, final) ==
    /\ pc = "fetching"
    /\ UNCHANGED <<reqs, headless>>
    /\ fetched' = "ok"
    /\ doc' = d
    /\ finalUrl' = final
    /\ UNCHANGED <<apiKey, query, url, fetchError, fetchLog>>
    /\ LET city    == cityOf(query["location"])
           checked == runChecks(results, DocOf(d), url, city)
       IN  IF noApiKey(apiKey)
           THEN /\ results' = finish(checked, notFoundError("No API key"))
                /\ lookup' = "nokey"
                /\ respond(200, results')
                /\ UNCHANGED <<queries, qi, gbpLog>>
           ELSE /\ results' = [finish(checked, NotFound) EXCEPT !.issues = checked.issues]
                /\ queries' = gbpQueries(query["businessName"], city)
                /\ qi' = 1
                /\ gbpLog' = <<queries'[1]>>
                /\ lookup' = "pending"
                /\ pc' = "lookup"
                /\ UNCHANGED res

\* lines 28-112 and 143-157: the page arrives from the URL final, the checks
\* run, checkGBP is called; without a key it returns at once and lines
\* 113-136 and 185 follow
FetchSucceeds(d, final) ==
    /\ pc = "fetching"
    /\ UNCHANGED <<reqs, headless>>
    /\ fetched' = "ok"
    /\ doc' = d
    /\ finalUrl' = final
    /\ UNCHANGED <<apiKey, query, url, fetchError, fetchLog>>
    /\ IF IsUndefined(query, "location")
       THEN /\ respond(200, errorReport(TypeErrorMessage))
            /\ UNCHANGED <<results, lookup, queries, qi, gbpLog>>
       ELSE LET city    == cityOf(query["location"])
                checked == runChecks(results, DocOf(d), url, city)
            IN  IF noApiKey(apiKey)
                THEN /\ results' = finish(checked, notFoundError("No API key"))
                     /\ lookup' = "nokey"
                     /\ respond(200, results')
                     /\ UNCHANGED <<queries, qi, gbpLog>>
                ELSE IF IsUndefined(query, "businessName")
                THEN /\ results' = finish(checked, notFoundError(TypeErrorMessage))
                     /\ lookup' = "error"
                     /\ respond(200, results')
                     /\ UNCHANGED <<queries, qi, gbpLog>>
                ELSE /\ results' = checked
                     /\ queries' = gbpQueries(query["businessName"], city)
                     /\ qi' = 1
                     /\ gbpLog' = <<queries'[1]>>
                     /\ lookup' = "pending"
                     /\ pc' = "lookup"
                     /\ UNCHANGED res

\* lines 154-170, then 113-136 and 185: a listing query is answered
QueryAnswered(data) ==
    /\ pc = "lookup"
    /\ UNCHANGED <<reqs, finalUrl, headless>>
    /\ UNCHANGED <<apiKey, query, url, doc, fetched, fetchError, fetchLog, queries>>
    /\ IF hasResults(data)
       THEN /\ results' = finish(results, foundPlace(data))
            /\ lookup' = "found"
            /\ respond(200, results')
            /\ UNCHANGED <<qi, gbpLog>>
       ELSE IF qi < Len(queries)
       THEN /\ qi' = qi + 1
            /\ gbpLog' = Append(gbpLog, queries[qi + 1])
            /\ UNCHANGED <<pc, results, lookup, res>>
       ELSE /\ results' = finish(results, NotFound)
            /\ lookup' = "empty"
            /\ respond(200, results')
            /\ UNCHANGED <<qi, gbpLog>>

\* checkGBP without its try: the rejection reaches the catch of line 137
QueryFailsEscapes(message) ==
    /\ pc = "lookup"
    /\ UNCHANGED <<reqs, finalUrl, headless>>
    /\ lookup' = "error"
    /\ respond(200, errorReport(message))
    /\ UNCHANGED <<apiKey, query, url, results, doc, fetched, fetchError, fetchLog,
                   queries, qi, gbpLog>>

\* lines 154-157 reject, line 172, then 113-136 and 185
QueryFails(message) ==
    /\ pc = "lookup"
    /\ UNCHANGED <<reqs, finalUrl, headless>>
    /\ results' = finish(results, notFoundError(message))
    /\ lookup' = "error"
    /\ respond(200, results')
    /\ UNCHANGED <<apiKey, query, url, doc, fetched, fetchError, fetchLog, queries, qi, gbpLog>>

\* line 186: the handler returns after res.json; nothing of the request
\* outlives it, and the server waits for the next request
HandlerReturns ==
    /\ pc = "responded"
    /\ UNCHANGED <<reqs, headless>>
    /\ pc' = "idle"
    /\ query' = <<>>
    /\ url' = <<>>
    /\ results' = Null
    /\ doc' = NoDoc
    /\ fetched' = "none"
    /\ fetchError' = ""
    /\ fetchLog' = <<>>
    /\ finalUrl' = <<>>
    /\ lookup' = "none"
    /\ queries' = <<>>
    /\ qi' = 0
    /\ gbpLog' = <<>>
    /\ res' = NoResponse
    /\ UNCHANGED apiKey

Next ==
    \/ \E q \in Queries : Analyze(q, AnalysisTime)
    \/ \E message \in FetchErrors : FetchFails(message)
    \/ \E d \in Docs : \E final \in FinalUrls(url) : FetchSucceeds(d, final)
    \/ \E data \in NonTextData : FetchSucceedsNotText(data)
    \/ \E data \in PlacesData : QueryAnswered(data)
    \/ \E message \in QueryErrors : QueryFails(message)
    \/ HandlerReturns

Spec == Init /\ [][Next]_vars

(***************************************************************************)
(* Several requests at once.  Each request has its own invocation of the   *)
(* handler, its own LocalSEOAnalyzer (line 183) and, in analyzeWebsite,    *)
(* its own url, results, html, pageData, checks and gbp (lines 12-112);    *)
(* the invocations are interleaved at their awaits (lines 28, 112, 154 and *)
(* 184).  The key of line 7 is the one thing they all read.                *)
(***************************************************************************)
ConcQueries ==
    {[url |-> <<"a", ".", "c", "o">>, businessName |-> <<"J", "'", "s", " ", "I", "n", "c">>],
     [url |-> <<"h", "t", "t", "p", "s", ":", "/", "/", "a", ".", "c", "o">>, businessName |-> <<"J", "'", "s", " ", "I", "n", "c">>, location |-> <<"L", "a", "n", ",", " ", "P", "A">>],
     [url |-> <<"h", "t", "t", "p", ":", "/", "/", "a", ".", "c", "o">>, businessName |-> <<"J", "'", "s", " ", "I", "n", "c">>, location |-> <<",", " ", "P", "A">>]}

\* the page that passes every check, and two pages that differ in the
\* address alone: a phone number, and a phone number with an address
ConcDocs == {GoodDoc, [BadDoc EXCEPT !.html = 3], [BadDoc EXCEPT !.html = 8]}

ConcFetchErrors == {"timeout of 20000ms exceeded"}

ConcNonTextData == {"object"}

\* listing responses: no result, or one
ConcPlacesData ==
    {[status |-> "ZERO_RESULTS", results |-> <<>>]}
        \cup {[status |-> "OK", results |-> <<p>>] : p \in {q \in Places : q.rating = 45}}

ConcQueryErrors == {"timeout of 5000ms exceeded"}

\* lines 177-184 and 12-32: the handler up to the first await
started(q, now) ==
    IF missingFields(q)
    THEN [IdleRequest EXCEPT
             !.pc = "responded", !.query = q,
             !.res = [status |-> 400, body |-> [error |-> "Missing required fields"]]]
    ELSE [IdleRequest EXCEPT
             !.pc = "fetching", !.query = q, !.now = now,
             !.results = newResults(q["url"], q["businessName"], q["location"], now),
             !.url = defaultScheme(q["url"]),
             !.fetched = "pending"]

\* a catch that stamps the message with the time of the analysis
fetchFailedStamped(r, message) ==
    [r EXCEPT !.pc = "responded", !.fetched = "failed", !.fetchError = message,
              !.res = [status |-> 200, body |-> errorReport(<<message, r.now>>)]]

\* lines 28-32 reject, line 138, line 185
fetchFailed(r, message) ==
    [r EXCEPT !.pc = "responded", !.fetched = "failed", !.fetchError = message,
              !.res = [status |-> 200, body |-> errorReport(message)]]

\* lines 28-35, 138 and 185: the body is not a string
fetchedNotText(r, data) ==
    [r EXCEPT !.pc = "responded", !.fetched = "nottext", !.fetchError = data,
              !.res = [status |-> 200, body |-> errorReport(toLowerCaseError(data))]]

\* lines 28-112 and 143-157, on the results object base; without a key
\* checkGBP returns at once and lines 113-136 and 185 follow
fetchedPage(r, base, d, key) ==
    LET city    == cityOf(r.query["location"])
        checked == runChecks(base, DocOf(d), r.url, city)
        done    == finish(checked, notFoundError("No API key"))
    IN  IF noApiKey(key)
        THEN [r EXCEPT !.pc = "responded", !.fetched = "ok", !.doc = d,
                       !.results = done, !.lookup = "nokey",
                       !.res = [status |-> 200, body |-> done]]
        ELSE [r EXCEPT !.pc = "lookup", !.fetched = "ok", !.doc = d,
                       !.results = checked, !.lookup = "pending",
                       !.queries = gbpQueries(r.query["businessName"], city),
                       !.qi = 1]

\* a lookup that gives up at the first answer without a result
queryAnsweredNoRetry(r, data) ==
    LET heard == Append(r.answers, data)
        done  == finish(r.results, IF hasResults(data) THEN foundPlace(data) ELSE NotFound)
    IN  [r EXCEPT !.pc = "responded", !.answers = heard,
                  !.lookup = IF hasResults(data) THEN "found" ELSE "empty",
                  !.results = done, !.res = [status |-> 200, body |-> done]]

\* lines 154-170, then 113-136 and 185
queryAnswered(r, data) ==
    LET heard == Append(r.answers, data)
    IN  IF hasResults(data)
        THEN LET done == finish(r.results, foundPlace(data))
             IN  [r EXCEPT !.pc = "responded", !.answers = heard, !.lookup = "found",
                           !.results = done, !.res = [status |-> 200, body |-> done]]
        ELSE IF r.qi < Len(r.queries)
        THEN [r EXCEPT !.answers = heard, !.qi = r.qi + 1]
        ELSE LET done == finish(r.results, NotFound)
             IN  [r EXCEPT !.pc = "responded", !.answers = heard, !.lookup = "empty",
                           !.results = done, !.res = [status |-> 200, body |-> done]]

\* a try inside the loop: a query that rejects is passed over and the next
\* form is tried
queryFailedTriesNext(r, message) ==
    LET heard == Append(r.answers, [error |-> message])
        done  == finish(r.results, notFoundError(message))
    IN  IF r.qi < Len(r.queries)
        THEN [r EXCEPT !.answers = heard, !.qi = r.qi + 1]
        ELSE [r EXCEPT !.pc = "responded", !.answers = heard, !.lookup = "error",
                       !.results = done, !.res = [status |-> 200, body |-> done]]

\* lines 154-157 reject, line 172, then 113-136 and 185
queryFailed(r, message) ==
    LET done == finish(r.results, notFoundError(message))
    IN  [r EXCEPT !.pc = "responded", !.answers = Append(r.answers, [error |-> message]),
                  !.lookup = "error", !.results = done,
                  !.res = [status |-> 200, body |-> done]]

\* results held in one variable of the module, which every invocation
\* assigns and uses: the object at hand is that of some request in progress
sharedResults(i) == reqs[CHOOSE j \in Requests : reqs[j].results # Null].results

\* line 13: results is a const of the invocation
ownResults(i) == reqs[i].results

serverVars ==
    <<pc, apiKey, query, url, results, doc, fetched, fetchError, fetchLog, finalUrl,
      lookup, queries, qi, gbpLog, res>>

Becomes(i, r) == reqs' = [reqs EXCEPT ![i] = r] /\ UNCHANGED <<serverVars, headless>>

RequestArrives(i, q, now) ==
    /\ reqs[i].pc = "idle"
    /\ Becomes(i, started(q, now))

PageFetchFails(i, message) ==
    /\ reqs[i].pc = "fetching"
    /\ Becomes(i, fetchFailed(reqs[i], message))

PageIsNotText(i, data) ==
    /\ reqs[i].pc = "fetching"
    /\ Becomes(i, fetchedNotText(reqs[i], data))

PageArrives(i, d) ==
    /\ reqs[i].pc = "fetching"
    /\ Becomes(i, fetchedPage(reqs[i], ownResults(i), d, apiKey))

ListingAnswers(i, data) ==
    /\ reqs[i].pc = "lookup"
    /\ Becomes(i, queryAnswered(reqs[i], data))

ListingFails(i, message) ==
    /\ reqs[i].pc = "lookup"
    /\ Becomes(i, queryFailed(reqs[i], message))

\* line 186: the invocation ends and nothing of the request is kept
RequestEnds(i) ==
    /\ reqs[i].pc = "responded"
    /\ Becomes(i, IdleRequest)

NextConc ==
    \/ \E i \in Requests, q \in ConcQueries, now \in Timestamps : RequestArrives(i, q, now)
    \/ \E i \in Requests, message \in ConcFetchErrors : PageFetchFails(i, message)
    \/ \E i \in Requests, data \in ConcNonTextData : PageIsNotText(i, data)
    \/ \E i \in Requests, d \in ConcDocs : PageArrives(i, d)
    \/ \E i \in Requests, data \in ConcPlacesData : ListingAnswers(i, data)
    \/ \E i \in Requests, message \in ConcQueryErrors : ListingFails(i, message)
    \/ \E i \in Requests : RequestEnds(i)

SpecConc == Init /\ [][NextConc]_vars

(***************************************************************************)
(* One request with every listing response: the invocation r1 alone, with  *)
(* the responses of the places API drawn from PlacesData and kept, in the  *)
(* order they arrived, in its field answers.                               *)
(***************************************************************************)
LookupQueries == {q \in ConcQueries : ~missingFields(q)}

LookupDocs == {GoodDoc, BadDoc}

NextLookup ==
    \/ \E q \in LookupQueries : RequestArrives("r1", q, AnalysisTime)
    \/ \E message \in ConcFetchErrors : PageFetchFails("r1", message)
    \/ \E d \in LookupDocs : PageArrives("r1", d)
    \/ \E data \in PlacesData : ListingAnswers("r1", data)
    \/ \E message \in QueryErrors : ListingFails("r1", message)
    \/ RequestEnds("r1")

SpecLookup == Init /\ [][NextLookup]_vars

(***************************************************************************)
(* The headless-browser revision, src/unnamed/part_000: analyzeWebsite     *)
(* launches a browser, opens a page, navigates, reads the content and the  *)
(* title, closes the browser, scores the page and looks the listing up.    *)
(* headless.browser is the instance of the analysis in progress ("none",   *)
(* "open" or "closed") and headless.open the number of instances of the    *)
(* process that are launched and not closed.                               *)
(***************************************************************************)
IsLetter(c) == c \in Range(UpperChars) \cup Range(LowerChars)

\* the positions after an optional character of the set C at position i
AfterOptional(s, i, C) == {i} \cup (IF i \in DOMAIN s /\ s[i] \in C THEN {i + 1} ELSE {})

\* [-.\s]
SepOrSpaceChars == {"-", "."} \cup SpaceChars

\* part_000 lines 34 and 38: /\(?\d{3}\)?[-.\s]?\d{3}[-.\s]?\d{4}/.test(html)
napHasPhone(html) ==
    \E i \in DOMAIN html :
        \E a \in AfterOptional(html, i, {"("}) :
            /\ AllDigits(html, a, a + 2)
            /\ \E b \in AfterOptional(html, a + 3, {")"}) :
                  \E c \in AfterOptional(html, b, SepOrSpaceChars) :
                      /\ AllDigits(html, c, c + 2)
                      /\ \E d \in AfterOptional(html, c + 3, SepOrSpaceChars) :
                            AllDigits(html, d, d + 3)

\* part_000 lines 35 and 39: /\d+\s+[^,]+,\s*[A-Za-z]+/.test(html): a digit, a
\* space, one or more characters that are not commas, a comma, any spaces and
\* a letter
napHasAddress(html) ==
    \E i \in DOMAIN html :
        /\ IsDigit(html[i])
        /\ i + 1 <= Len(html) /\ IsSpace(html[i + 1])
        /\ \E m \in (i + 3)..Len(html) :
              /\ \A k \in (i + 2)..(m - 1) : html[k] # ","
              /\ html[m] = ","
              /\ \E n \in (m + 1)..Len(html) :
                    /\ \A k \in (m + 1)..(n - 1) : IsSpace(html[k])
                    /\ IsLetter(html[n])

\* part_000 line 40: html.includes('LocalBusiness') || html.includes('schema.org')
napHasSchema(html) ==
    \/ includes(html, <<"L", "o", "c", "a", "l", "B", "u", "s", "i", "n", "e", "s", "s">>)
    \/ includes(html, <<"s", "c", "h", "e", "m", "a", ".", "o", "r", "g">>)

\* part_000 lines 37-41
napOf(html) ==
    [hasPhone |-> napHasPhone(html), hasAddress |-> napHasAddress(html),
     hasSchema |-> napHasSchema(html)]

\* part_000 lines 46-62, the score
localSEOScore(nap, html, location) ==
    100 - (IF ~nap.hasPhone THEN 20 ELSE 0) - (IF ~nap.hasAddress THEN 20 ELSE 0)
        - (IF ~nap.hasSchema THEN 15 ELSE 0)
        - (IF ~includes(html, location) THEN 15 ELSE 0)

\* part_000 lines 46-62, the pushes
localSEOIssues(nap, html, location) ==
       (IF ~nap.hasPhone
        THEN <<Issue("critical", "NAP", "No phone number found",
                     <<"Add clickable phone number">>)>> ELSE <<>>)
    \o (IF ~nap.hasAddress
        THEN <<Issue("critical", "NAP", "No address found",
                     <<"Add full address with city/state">>)>> ELSE <<>>)
    \o (IF ~nap.hasSchema
        THEN <<Issue("high", "Schema", "No LocalBusiness schema",
                     <<"Add JSON-LD schema markup">>)>> ELSE <<>>)
    \o (IF ~includes(html, location)
        THEN <<Issue("high", "Content", "Location not in content",
                     <<"Add ">> \o location \o <<" to title and content">>)>> ELSE <<>>)

\* part_000 lines 17-23
newBrowserResults(u, businessName, location, now) ==
    [url |-> u, businessName |-> businessName, location |-> location,
     analyzedAt |-> now, scores |-> <<>>, issues |-> <<>>,
     googleBusinessProfile |-> Null]

\* part_000 lines 64-65, with Math.max(0, score)
scored(r, html, title) ==
    LET nap   == napOf(html)
        score == localSEOScore(nap, html, r.location)
    IN  [issues |-> localSEOIssues(nap, html, r.location),
         scores |-> [localSEO |-> IF score > 0 THEN score ELSE 0],
         technicalSEO |-> [nap |-> nap, title |-> title]] @@ r

\* part_000 lines 69-71; Math.round of a half rounds up
aggregated(r, gbp) ==
    LET g == IF gbp.found THEN 100 ELSE 0
    IN  [r EXCEPT !.googleBusinessProfile = gbp,
                  !.scores = [localSEO |-> r.scores.localSEO, gbp |-> g,
                              overall |-> (r.scores.localSEO + g + 1) \div 2]]

\* part_000 lines 85-88
browserGbp(data) ==
    IF hasResults(data)
    THEN [found |-> TRUE, name |-> data.results[1].name, rating |-> data.results[1].rating]
    ELSE [found |-> FALSE,
          issues |-> <<[category |-> "GBP", issue |-> "Google Business Profile not found!"]>>]

\* the browser instances that one process is let to hold
MaxOpenBrowsers == 2

BrowserUrls == {<<"h", "t", "t", "p", "s", ":", "/", "/", "a", ".", "c", "o">>, <<"a", ".", "c", "o">>}

BrowserLocations == {<<"L", "a", "n", ",", " ", "P", "A">>}

\* what page.content() returns
BrowserPages == {HtmlTable[2], HtmlTable[5], HtmlTable[6]}

\* what page.title() returns
BrowserTitles == {<<"H", "o", "m", "e">>}

\* what puppeteer rejects with
BrowserErrors ==
    {"Navigation timeout of 30000 ms exceeded", "net::ERR_NAME_NOT_RESOLVED at a.co"}

BrowserPlacesData ==
    {[status |-> "ZERO_RESULTS", results |-> <<>>]}
        \cup {[status |-> "OK", results |-> <<p>>] : p \in Places}

OnlyHeadless == UNCHANGED <<serverVars, reqs>>

\* a catch that closes the browser when there is one
caughtAndClosed(message) ==
    /\ headless' = [headless EXCEPT
                       !.pc = "returned", !.ret = [error |-> message],
                       !.browser = IF @ = "open" THEN "closed" ELSE @,
                       !.open = IF headless.browser = "open" THEN @ - 1 ELSE @]
    /\ OnlyHeadless

\* part_000 lines 74-76: the catch returns the message; nothing else is done
caught(message) ==
    /\ headless' = [headless EXCEPT !.pc = "returned", !.ret = [error |-> message]]
    /\ OnlyHeadless

\* part_000 lines 16-26: analyzeWebsite is called and awaits puppeteer.launch
BrowserAnalyze(u, businessName, location, now) ==
    /\ headless.pc = "idle"
    /\ headless.open < MaxOpenBrowsers
    /\ headless' = [headless EXCEPT
                       !.pc = "launch",
                       !.results = newBrowserResults(u, businessName, location, now)]
    /\ OnlyHeadless

\* part_000 line 26: puppeteer.launch resolves with a browser, or rejects
Launch(ok, message) ==
    /\ headless.pc = "launch"
    /\ IF ok
       THEN /\ headless' = [headless EXCEPT !.pc = "newPage", !.browser = "open",
                                           !.open = @ + 1]
            /\ OnlyHeadless
       ELSE caught(message)

\* part_000 line 27: browser.newPage()
NewPage(ok, message) ==
    /\ headless.pc = "newPage"
    /\ IF ok
       THEN headless' = [headless EXCEPT !.pc = "goto"] /\ OnlyHeadless
       ELSE caught(message)

\* part_000 line 28: page.goto(url, ...), with the url as it was given
Goto(ok, message) ==
    /\ headless.pc = "goto"
    /\ IF ok
       THEN headless' = [headless EXCEPT !.pc = "content"] /\ OnlyHeadless
       ELSE caught(message)

\* part_000 line 30: page.content()
Content(ok, html, message) ==
    /\ headless.pc = "content"
    /\ IF ok
       THEN headless' = [headless EXCEPT !.pc = "title", !.html = html] /\ OnlyHeadless
       ELSE caught(message)

\* part_000 lines 31-43: page.title(), the patterns, and the call of
\* browser.close()
Title(ok, title, message) ==
    /\ headless.pc = "title"
    /\ IF ok
       THEN headless' = [headless EXCEPT !.pc = "close", !.title = title] /\ OnlyHeadless
       ELSE caught(message)

\* part_000 lines 43-68 and 80-83: browser.close() resolves, the page is
\* scored and checkGBP sends its query
Close ==
    /\ headless.pc = "close"
    /\ headless' = [headless EXCEPT
                       !.pc = "lookup", !.browser = "closed", !.open = @ - 1,
                       !.results = scored(@, headless.html, headless.title)]
    /\ OnlyHeadless

\* part_000 lines 85-88 and 69-73: the query is answered
GbpAnswered(data) ==
    /\ headless.pc = "lookup"
    /\ LET done == aggregated(headless.results, browserGbp(data))
       IN  headless' = [headless EXCEPT !.pc = "returned", !.results = done, !.ret = done]
    /\ OnlyHeadless

\* part_000 lines 89-91 and 69-73: the query rejects
GbpFails(message) ==
    /\ headless.pc = "lookup"
    /\ LET done == aggregated(headless.results, notFoundError(message))
       IN  headless' = [headless EXCEPT !.pc = "returned", !.results = done, !.ret = done]
    /\ OnlyHeadless

\* analyzeWebsite has returned; the process keeps the browsers it holds
Returned ==
    /\ headless.pc = "returned"
    /\ headless' = [IdleBrowser EXCEPT !.open = headless.open]
    /\ OnlyHeadless

NextBrowser ==
    \/ \E u \in BrowserUrls, location \in BrowserLocations, now \in Timestamps :
          BrowserAnalyze(u, <<"J", "'", "s", " ", "I", "n", "c">>, location, now)
    \/ \E ok \in BOOLEAN, message \in BrowserErrors : Launch(ok, message)
    \/ \E ok \in BOOLEAN, message \in BrowserErrors : NewPage(ok, message)
    \/ \E ok \in BOOLEAN, message \in BrowserErrors : Goto(ok, message)
    \/ \E ok \in BOOLEAN, html \in BrowserPages, message \in BrowserErrors :
          Content(ok, html, message)
    \/ \E ok \in BOOLEAN, title \in BrowserTitles, message \in BrowserErrors :
          Title(ok, title, message)
    \/ Close
    \/ \E data \in BrowserPlacesData : GbpAnswered(data)
    \/ \E message \in QueryErrors : GbpFails(message)
    \/ Returned

SpecBrowser == Init /\ [][NextBrowser]_vars

(***************************************************************************)
(* Properties                                                              *)
(***************************************************************************)
ScoreNames == {"overall", "onPage", "local", "technical", "gbp"}

\* the request has been answered with a full Report (line 136), not with the
\* object of the catch
Successful ==
    pc = "responded" /\ res.status = 200 /\ "issues" \in DOMAIN res.body

RequestIncomplete == \E n \in ParamNames : n \notin DOMAIN query \/ query[n] = <<>>

\* C1: a request to GET /api/analyze in which url, businessName or location
\* is missing or empty is answered with HTTP 400 and the body
\* {error: "Missing required fields"}, and neither the page fetch nor a
\* listing query is issued for it.
C1_MissingFieldsRejected ==
    (pc # "idle" /\ RequestIncomplete) =>
        /\ pc = "responded"
        /\ res = [status |-> 400, body |-> [error |-> "Missing required fields"]]
        /\ fetched = "none" /\ fetchLog = <<>>
        /\ lookup = "none" /\ gbpLog = <<>>

\* a request with url and businessName and an empty location has been refused
C1_Witness ==
    /\ pc = "responded" /\ res.status = 400
    /\ \A n \in ParamNames : n \in DOMAIN query
    /\ query["url"] # <<>> /\ query["businessName"] # <<>> /\ query["location"] = <<>>

\* C2: when the page fetch fails, the Report has the four sub-scores and the
\* overall score equal to 0.
C2_FetchFailureZeroScores ==
    (pc = "responded" /\ fetched = "failed") =>
        /\ "scores" \in DOMAIN res.body
        /\ DOMAIN res.body.scores = ScoreNames
        /\ \A k \in ScoreNames : res.body.scores[k] = 0

\* a fetch answered with status 500 has been reported
C2_Witness ==
    /\ pc = "responded" /\ fetched = "failed" /\ res.status = 200
    /\ fetchError = "Request failed with status code 500"

C4_NoLookupAfterFetchFailure ==
    fetched = "failed" =>
        /\ pc = "responded"
        /\ lookup = "none" /\ queries = <<>> /\ qi = 0 /\ gbpLog = <<>>

\* the fetch has failed on a server that has a key, so that could query
C4_Witness ==
    /\ fetched = "failed" /\ pc = "responded"
    /\ apiKey # <<>> /\ apiKey[1] # <<>>

\* C5: when the page fetch succeeds and the listing lookup fails (a query
\* rejects, or every query is answered without a result), the response is
\* the full Report: the on-page, local and technical sub-scores and the
\* issues are those of the checks on the page, the listing is found:false,
\* scores.gbp is 0 and exactly one issue of category "GBP" is appended.
C5_LookupFailureDegrades ==
    (pc = "responded" /\ fetched = "ok" /\ lookup \in {"empty", "error"}) =>
        LET city       == cityOf(query["location"])
            pd         == pageData(DocOf(doc))
            onPage     == onPageChecks(pd, city)
            local      == localChecks(DocOf(doc).html, city)
            pageIssues == onPageIssues(onPage, pd, city) \o localIssues(local, city)
                              \o techIssues(url)
        IN  /\ res.status = 200
            /\ DOMAIN res.body = DOMAIN newResults(<<>>, <<>>, <<>>, "")
            /\ res.body.scores.onPage = onPageScore(onPage)
            /\ res.body.scores.local = localScore(local)
            /\ res.body.scores.technical = techScore(url)
            /\ res.body.googleBusinessProfile.found = FALSE
            /\ res.body.scores.gbp = 0
            /\ res.body.issues = Append(pageIssues, GbpIssue)
            /\ Cardinality({i \in DOMAIN res.body.issues :
                               res.body.issues[i].category = "GBP"}) = 1

\* a listing query has been rejected after checks that earned points
C5_Witness ==
    /\ pc = "responded" /\ fetched = "ok" /\ lookup = "error"
    /\ "error" \in DOMAIN results.googleBusinessProfile
    /\ results.googleBusinessProfile.error \in QueryErrors
    /\ res.body.scores.onPage > 0 /\ res.body.scores.local > 0

\* C6: when no places-API key is configured, checkGBP returns found:false
\* with the marker "No API key" without any network call, and the analysis
\* still ends with the full Report, not with the error Report.
C6_NoCredentialDegrades ==
    (apiKey = <<>> \/ apiKey = <<<<>>>>) =>
        /\ gbpLog = <<>>
        /\ lookup \in {"none", "nokey"}
        /\ (pc = "responded" /\ fetched = "ok") =>
              /\ lookup = "nokey"
              /\ res.status = 200
              /\ "issues" \in DOMAIN res.body
              /\ "error" \notin DOMAIN res.body
              /\ res.body.googleBusinessProfile = [found |-> FALSE, error |-> "No API key"]

\* an analysis has ended on a server whose key is the empty string
C6_Witness ==
    /\ apiKey = <<<<>>>> /\ pc = "responded" /\ fetched = "ok"
    /\ lookup = "nokey" /\ res.body.scores.overall > 0

\* the weighted sum of the sub-scores of s, in hundredths
WeightedHundredths(s) == 30 * s.onPage + 35 * s.local + 15 * s.technical + 20 * s.gbp

\* C7: in every successful analysis scores.overall is
\* round(onPage*0.30 + local*0.35 + technical*0.15 + gbp*0.20), computed
\* from the four sub-scores of the same Report.
C7_OverallIsRoundedWeightedSum ==
    Successful =>
        LET x == WeightedHundredths(res.body.scores)
        IN  /\ 100 * res.body.scores.overall <= x + 50
            /\ x + 50 < 100 * res.body.scores.overall + 100

\* a Report whose weighted sum is rounded up
C7_Witness ==
    /\ Successful
    /\ WeightedHundredths(res.body.scores) % 100 >= 50
    /\ 100 * res.body.scores.overall > WeightedHundredths(res.body.scores)

\* C8: in every Report, successful or not, each sub-score lies in [0,100]
\* and scores.overall is an integer of [0,100]; the weights of the overall
\* score are fixed and sum to 1.
C8_ScoresInRange ==
    /\ WeightOnPage + WeightLocal + WeightTechnical + WeightGbp = 100
    /\ (pc = "responded" /\ res.status = 200) =>
          /\ "scores" \in DOMAIN res.body
          /\ \A k \in ScoreNames : res.body.scores[k] \in 0..100

\* a Report whose on-page sub-score reaches the upper end of the range
C8_Witness ==
    Successful /\ res.body.scores.onPage = 100 /\ res.body.scores.gbp = 100

\* every check of the table passes on the fetched document, the URL fetched
\* is an HTTPS one and the listing has been found
AllChecksPass ==
    /\ pc = "responded" /\ fetched = "ok" /\ lookup = "found"
    /\ LET city  == cityOf(query["location"])
           d     == DocOf(doc)
           title == trim(d.title)
           lower == toLowerCase(d.html)
       IN  /\ Len(title) >= 30 /\ Len(title) <= 60
           /\ includes(toLowerCase(title), city)
           /\ d.meta # <<>> /\ Len(d.meta[1]) >= 120 /\ Len(d.meta[1]) <= 160
           /\ Len(d.h1s) = 1 /\ includes(toLowerCase(d.h1s[1]), city)
           /\ wordCount(d.bodyText) >= 300
           /\ includes(lower, city)
           /\ hasPhone(d.html) /\ hasAddress(d.html)
           /\ hasLocalSchema(lower)
           /\ startsWith(url, <<"h", "t", "t", "p", "s", ":", "/", "/">>)

\* C9, as stated: when every check passes, the overall score is 100, the
\* issue list is empty and whatsWorking is not.
C9_Original ==
    AllChecksPass =>
        /\ res.body.scores.overall = 100
        /\ res.body.issues = <<>>
        /\ res.body.whatsWorking # <<>>

\* C9, amended: when every check passes, the sub-scores are 100 (on-page),
\* 80 (local), 85 (technical) and 100 (gbp), the overall score is 91, the
\* issue list is empty and whatsWorking is not.
C9_AllChecksPass ==
    AllChecksPass =>
        /\ res.body.scores =
              [overall |-> 91, onPage |-> 100, local |-> 80, technical |-> 85, gbp |-> 100]
        /\ res.body.issues = <<>>
        /\ res.body.whatsWorking # <<>>

\* every check has passed for a request whose city is not the empty string
C9_Witness ==
    AllChecksPass /\ cityOf(query["location"]) # <<>>

CriticalAt(issues) == {i \in DOMAIN issues : issues[i].priority = "critical"}

StaticMessage == <<"Great job! Get more reviews to improve rankings.">>

\* C10, as stated: in every successful Report topRecommendation is the fix
\* text of the first critical issue if there is one, else the fix text of
\* the first issue, else a static positive message.
C10_Original ==
    Successful =>
        LET issues == res.body.issues
        IN  res.body.topRecommendation =
                IF CriticalAt(issues) # {} THEN issues[SetMin(CriticalAt(issues))].fix
                ELSE IF issues # <<>> THEN issues[1].fix
                ELSE StaticMessage

\* C10, amended: in every successful Report topRecommendation is
\* "Priority: " followed by the fix text of the first critical issue if
\* there is one, else "Next: " followed by the fix text of the first issue,
\* else the static positive message.
C10_TopRecommendation ==
    Successful =>
        LET issues == res.body.issues
        IN  res.body.topRecommendation =
                IF CriticalAt(issues) # {}
                THEN <<"Priority: ">> \o issues[SetMin(CriticalAt(issues))].fix
                ELSE IF issues # <<>> THEN <<"Next: ">> \o issues[1].fix
                ELSE StaticMessage

\* a Report whose first critical issue is not its first issue
C10_Witness ==
    /\ Successful
    /\ CriticalAt(res.body.issues) # {}
    /\ SetMin(CriticalAt(res.body.issues)) > 1

(***************************************************************************)
(* The canonical table of the eleven checks, in its row order              *)
(***************************************************************************)
TableCategory ==
    <<"Title", "Local SEO", "Meta", "H1", "H1 Local", "Content", "Content", "NAP",
      "Schema", "Security", "GBP">>

\* the priority of the issue of a failing check; the Meta issue is high
\* instead when the description is absent
TablePriority ==
    <<"high", "critical", "medium", "high", "critical", "medium", "critical", "critical",
      "high", "critical", "critical">>

\* the points of a passing check: rows 1-6 on-page, rows 7-9 local; the
\* technical sub-score is 85 against 50 and the gbp sub-score 100 against 0
TablePoints == <<20, 20, 15, 15, 15, 15, 30, 25, 25, 35, 100>>

TableRows == DOMAIN TableCategory

\* what the checks look at in each fixture of the document tables: the
\* trimmed title in lower case, the description (empty when the attribute is
\* absent), the trimmed H1s in lower case, the number of words, the HTML in
\* lower case, and whether the HTML has a phone number and an address
TitleSeen == <<>> \o [t \in DOMAIN TitleTable |-> toLowerCase(trim(TitleTable[t]))]

MetaSeen ==
    <<>> \o [m \in DOMAIN MetaTable |->
                IF MetaTable[m] = <<>> THEN <<>> ELSE MetaTable[m][1]]

H1sSeen ==
    <<>> \o [h \in DOMAIN H1Table |->
                <<>> \o [k \in DOMAIN H1Table[h] |-> toLowerCase(trim(H1Table[h][k]))]]

WordsSeen == <<>> \o [b \in DOMAIN BodyTable |-> wordCount(BodyTable[b])]

HtmlSeen == <<>> \o [h \in DOMAIN HtmlTable |-> toLowerCase(HtmlTable[h])]

NapSeen ==
    <<>> \o [h \in DOMAIN HtmlTable |-> hasPhone(HtmlTable[h]) /\ hasAddress(HtmlTable[h])]

\* the outcome of each check of the table for a request with query q that
\* fetched the URL u and the document dx, and whose lookup found a listing
\* or not
ChecksOf(q, dx, u, found) ==
    LET city  == cityOf(q["location"])
        title == TitleSeen[dx.title]
        meta  == MetaSeen[dx.meta]
        h1s   == H1sSeen[dx.h1s]
        lower == HtmlSeen[dx.html]
    IN  <<Len(title) >= 30 /\ Len(title) <= 60,
          includes(title, city),
          Len(meta) >= 120 /\ Len(meta) <= 160,
          Len(h1s) = 1,
          \E k \in DOMAIN h1s : includes(h1s[k], city),
          WordsSeen[dx.bodyText] >= 300,
          includes(lower, city),
          NapSeen[dx.html],
          includes(lower, <<"l", "o", "c", "a", "l", "b", "u", "s", "i", "n", "e", "s", "s">>),
          startsWith(u, <<"h", "t", "t", "p", "s">>),
          found>>

\* the outcomes for the request that has been answered
ChecksPassed == ChecksOf(query, doc, url, lookup = "found")

ExpectedPriority(k) ==
    IF k = 3 /\ MetaSeen[doc.meta] = <<>> THEN "high" ELSE TablePriority[k]

\* the issues of the list that are the issue of row k of the table
IssuesOfCheck(issues, k) ==
    {i \in DOMAIN issues : /\ issues[i].category = TableCategory[k]
                           /\ issues[i].priority = ExpectedPriority(k)}

\* the points of the passing checks among the rows from..to
RECURSIVE PointsOf(_, _, _)
PointsOf(p, from, to) ==
    IF from > to THEN 0
    ELSE (IF p[from] THEN TablePoints[from] ELSE 0) + PointsOf(p, from + 1, to)

\* C11: in a successful Report each failing check of the table has exactly
\* one issue, with the table's priority and category, and earns no points;
\* each passing check has no issue and earns the table's points; the number
\* of issues is the number of failing checks.
C11_ChecksFollowTable ==
    Successful =>
        LET p      == ChecksPassed
            issues == res.body.issues
            scores == res.body.scores
        IN  /\ \A k \in TableRows :
                  Cardinality(IssuesOfCheck(issues, k)) = IF p[k] THEN 0 ELSE 1
            /\ Len(issues) = Cardinality({k \in TableRows : ~p[k]})
            /\ scores.onPage = PointsOf(p, 1, 6)
            /\ scores.local = PointsOf(p, 7, 9)
            /\ scores.technical = 50 + PointsOf(p, 10, 10)
            /\ scores.gbp = PointsOf(p, 11, 11)

\* a Report with passing and failing checks in each sub-score, among them
\* the Meta check failing on an absent description
C11_Witness ==
    /\ Successful
    /\ LET p == ChecksPassed
       IN  /\ p[1] /\ ~p[3] /\ DocOf(doc).meta = <<>>
           /\ p[7] /\ p[10] /\ ~p[11]

\* the row of the table an issue belongs to
CheckIndex(issue) ==
    CHOOSE k \in TableRows :
        /\ TableCategory[k] = issue.category
        /\ (issue.category = "Content" => (k = 6 <=> issue.priority = "medium"))

IsPrefix(s, t) == Len(s) <= Len(t) /\ SubSeq(t, 1, Len(s)) = s

\* a step of an analysis keeps the issues appended so far, in their places
IssuesKept ==
    (results # Null /\ results' # Null) => IsPrefix(results.issues, results'.issues)

\* the issues of a Report are in the order of the checks
IssuesInCheckOrder ==
    Successful =>
        /\ res.body.issues = results.issues
        /\ \A i, j \in DOMAIN res.body.issues :
              i < j => CheckIndex(res.body.issues[i]) < CheckIndex(res.body.issues[j])

\* C12: the issue list of an analysis is append-only, an issue once appended
\* is never removed or reordered, and the final order is the order of the
\* checks: Title, Local SEO, Meta, H1, H1 Local, Content (thin), Content
\* (city), NAP, Schema, Security, GBP.
C12_IssuesAppendOnlyInOrder == [][IssuesKept]_vars /\ []IssuesInCheckOrder

\* the GBP issue has been appended to a list that held issues of on-page,
\* local and technical checks
C12_Witness ==
    /\ Successful
    /\ Len(res.body.issues) >= 4
    /\ res.body.issues[Len(res.body.issues)].category = "GBP"
    /\ \E i, j, k \in DOMAIN res.body.issues :
          /\ res.body.issues[i].category = "Title"
          /\ res.body.issues[j].category = "NAP"
          /\ res.body.issues[k].category = "Security"

\* the on-page points the Report holds for the title-length check: the
\* on-page sub-score less the points of the five other on-page checks
TitleLengthPoints ==
    LET c == res.body.checks.onPage
    IN  res.body.scores.onPage
            - (IF c.titleHasCity THEN 20 ELSE 0) - (IF c.metaOptimized THEN 15 ELSE 0)
            - (IF c.h1Present THEN 15 ELSE 0) - (IF c.h1HasCity THEN 15 ELSE 0)
            - (IF c.contentLength THEN 15 ELSE 0)

TitleIssues == {i \in DOMAIN res.body.issues : res.body.issues[i].category = "Title"}

\* C13: the title-length check passes exactly when the trimmed title has 30
\* to 60 characters: lengths 30 and 60 earn the 20 on-page points and no
\* Title issue, lengths 29 and 61 earn none and one high-priority Title issue.
C13_TitleLengthBoundary ==
    Successful =>
        LET n == Len(TitleSeen[doc.title])
        IN  IF 30 <= n /\ n <= 60
            THEN TitleLengthPoints = 20 /\ TitleIssues = {}
            ELSE /\ TitleLengthPoints = 0
                 /\ Cardinality(TitleIssues) = 1
                 /\ \A i \in TitleIssues : res.body.issues[i].priority = "high"

\* a title of exactly 30 characters, once trimmed, has been analysed
C13_Witness ==
    Successful /\ Len(TitleSeen[doc.title]) = 30 /\ Len(DocOf(doc).title) > 30

\* C16: a request that carries the three parameters is answered with HTTP
\* 200 and a JSON body whatever fails afterwards: a failed page fetch and a
\* body that cannot be processed give the error Report, a failed listing
\* lookup gives the full Report, and no failure leaves the handler
\* unanswered.
C16_AlwaysAnswered200 ==
    /\ pc \in {"idle", "fetching", "lookup", "responded"}
    /\ (pc = "responded" /\ ~RequestIncomplete) =>
          /\ res.status = 200
          /\ "scores" \in DOMAIN res.body
          /\ fetched \in {"failed", "nottext"} => "error" \in DOMAIN res.body
          /\ lookup = "error" => /\ Successful
                                 /\ "error" \in DOMAIN res.body.googleBusinessProfile

\* a body that is not text has been answered with the error Report
C16_Witness ==
    /\ pc = "responded" /\ fetched = "nottext" /\ ~RequestIncomplete
    /\ res.status = 200
    /\ res.body.error = "html.toLowerCase is not a function"

\* C17: in a successful Report whatsWorking holds an entry for city-in-title,
\* city-in-content, structured data and the listing exactly when the check
\* passed (the listing: when it was found), in that order, and nothing else.
C17_WhatsWorkingFollowsChecks ==
    Successful =>
        LET p == ChecksPassed
        IN  res.body.whatsWorking =
                   (IF p[2] THEN <<"Title includes city">> ELSE <<>>)
                \o (IF p[7] THEN <<"Content has location">> ELSE <<>>)
                \o (IF p[9] THEN <<"Schema markup present">> ELSE <<>>)
                \o (IF p[11] THEN <<"GBP is active">> ELSE <<>>)

\* the first and the last entry without the two between them
C17_Witness ==
    /\ Successful
    /\ cityOf(query["location"]) # <<>>
    /\ res.body.whatsWorking = <<"Title includes city", "GBP is active">>

HasHttpScheme(u) ==
    startsWith(u, <<"h", "t", "t", "p", ":", "/", "/">>) \/ startsWith(u, <<"h", "t", "t", "p", "s", ":", "/", "/">>)

\* C18, as stated: the URL fetched is "https://" followed by the input when
\* the input has no scheme, and the input itself when it has the scheme
\* http:// or https://.
C18_Original ==
    fetchLog # <<>> =>
        fetchLog[1] = IF HasHttpScheme(query["url"]) THEN query["url"]
                      ELSE <<"h", "t", "t", "p", "s", ":", "/", "/">> \o query["url"]

\* the points the Report holds for the structured-data check: the local
\* sub-score less the points of the two other local checks
SchemaPoints ==
    LET c == res.body.checks.local
    IN  res.body.scores.local
            - (IF c.cityInContent THEN 30 ELSE 0)
            - (IF c.hasPhone /\ c.hasAddress THEN 25 ELSE 0)

SchemaIssues == {i \in DOMAIN res.body.issues : res.body.issues[i].category = "Schema"}

SchemaCheckPassed == SchemaPoints = 25 /\ SchemaIssues = {}

SchemaCheckFailed ==
    /\ SchemaPoints = 0
    /\ Cardinality(SchemaIssues) = 1
    /\ \A i \in SchemaIssues : res.body.issues[i].priority = "high"

\* C20, as stated: the structured-data check passes when the HTML contains,
\* in any case, localbusiness, a "@type" marker or schema.org, and fails
\* only when it contains none of them.
C20_Original ==
    Successful =>
        LET lower == HtmlSeen[doc.html]
        IN  IF \/ includes(lower, <<"l", "o", "c", "a", "l", "b", "u", "s", "i", "n", "e", "s", "s">>)
               \/ includes(lower, <<"\"", "@", "t", "y", "p", "e", "\"">>)
               \/ includes(lower, <<"s", "c", "h", "e", "m", "a", ".", "o", "r", "g">>)
            THEN SchemaCheckPassed
            ELSE SchemaCheckFailed

\* C20, amended: the structured-data check passes exactly when the HTML
\* contains localbusiness in any case; a "@type" marker or schema.org
\* without it does not pass the check.
C20_LocalBusinessOnly ==
    Successful =>
        IF includes(HtmlSeen[doc.html], <<"l", "o", "c", "a", "l", "b", "u", "s", "i", "n", "e", "s", "s">>)
        THEN SchemaCheckPassed
        ELSE SchemaCheckFailed

\* a page that names schema.org, and not LocalBusiness, has the Schema issue
C20_Witness ==
    /\ Successful
    /\ includes(HtmlSeen[doc.html], <<"s", "c", "h", "e", "m", "a", ".", "o", "r", "g">>)
    /\ ~includes(HtmlSeen[doc.html], <<"l", "o", "c", "a", "l", "b", "u", "s", "i", "n", "e", "s", "s">>)
    /\ SchemaIssues # {}

(***************************************************************************)
(* Transport security                                                      *)
(***************************************************************************)
SecurityIssues ==
    {i \in DOMAIN res.body.issues : res.body.issues[i].category = "Security"}

\* C21, as stated: the technical sub-score is 85 and no Security issue is
\* raised exactly when the final URL of the fetch, after the redirects, has
\* the HTTPS scheme; otherwise the technical sub-score is 50 and one critical
\* "Not HTTPS" Security issue is appended.
C21_Original ==
    Successful =>
        IF startsWith(finalUrl, SchemeHttps)
        THEN res.body.scores.technical = 85 /\ SecurityIssues = {}
        ELSE /\ res.body.scores.technical = 50
             /\ Cardinality(SecurityIssues) = 1
             /\ \A i \in SecurityIssues :
                   /\ res.body.issues[i].priority = "critical"
                   /\ res.body.issues[i].issue = "Not HTTPS"

(***************************************************************************)
(* The order of the steps of one analysis                                  *)
(***************************************************************************)
\* nothing of lines 34-109 has been evaluated: results is as line 13 made it
NoCheckEvaluated ==
    /\ results.checks = <<>> /\ results.issues = <<>>
    /\ results.scores = ZeroScores

\* lines 34-109 have run to their end: the checks of both groups are
\* recorded, the three sub-scores are set and the issues of the failing
\* checks are in the list
ChecksComplete ==
    /\ DOMAIN results.checks = {"onPage", "local"}
    /\ results.scores.technical \in {50, 85}
    /\ LET p == ChecksOf(query, doc, url, FALSE)
       IN  Len(SelectSeq(results.issues, LAMBDA i : i.category # "GBP"))
               = Cardinality({k \in 1..10 : ~p[k]})

\* nothing of lines 113-134 has been computed
NotAggregated ==
    /\ results.googleBusinessProfile = Null
    /\ results.scores.overall = 0 /\ results.scores.gbp = 0
    /\ results.topRecommendation = <<>>
    /\ results.whatsWorking = <<>>

\* C22: within one analysis the page fetch completes or fails before any
\* check is evaluated, every on-page, local and technical check and its issue
\* are done before the first listing query is issued, and the overall score,
\* topRecommendation and whatsWorking are computed only after the listing
\* lookup has returned.
C22_StepsInOrder ==
    /\ (results # Null /\ fetched # "ok") => NoCheckEvaluated /\ NotAggregated
    /\ (fetched # "ok") => lookup = "none" /\ gbpLog = <<>>
    /\ (gbpLog # <<>> \/ lookup # "none") => fetched = "ok" /\ ChecksComplete
    /\ (results # Null /\ lookup \in {"none", "pending"}) => NotAggregated
    /\ (results # Null /\ ~NotAggregated) =>
          /\ lookup \in {"nokey", "found", "empty", "error"}
          /\ pc = "responded"

\* the second listing query is in flight: the checks have left issues and
\* sub-scores, and nothing is aggregated yet
C22_Witness ==
    /\ pc = "lookup" /\ Len(gbpLog) = 2 /\ lookup = "pending"
    /\ results.issues # <<>> /\ results.scores.onPage > 0
    /\ results.scores.overall = 0 /\ results.topRecommendation = <<>>

(***************************************************************************)
(* The meta description                                                    *)
(***************************************************************************)
\* the on-page points the Report holds for the meta-description check: the
\* on-page sub-score less the points of the five other on-page checks
MetaPoints ==
    LET c == res.body.checks.onPage
    IN  res.body.scores.onPage
            - (IF c.titleOptimized THEN 20 ELSE 0) - (IF c.titleHasCity THEN 20 ELSE 0)
            - (IF c.h1Present THEN 15 ELSE 0) - (IF c.h1HasCity THEN 15 ELSE 0)
            - (IF c.contentLength THEN 15 ELSE 0)

MetaIssues == {i \in DOMAIN res.body.issues : res.body.issues[i].category = "Meta"}

\* C24: the meta-description check adds 15 on-page points and no issue
\* exactly when the description has 120 to 160 characters; otherwise it
\* appends exactly one Meta issue, of priority medium when there is a
\* description (length > 0) and high when it is absent or empty.
C24_MetaDescriptionBands ==
    Successful =>
        LET n == Len(MetaSeen[doc.meta])
        IN  IF 120 <= n /\ n <= 160
            THEN MetaPoints = 15 /\ MetaIssues = {}
            ELSE /\ MetaPoints = 0
                 /\ Cardinality(MetaIssues) = 1
                 /\ \A i \in MetaIssues :
                       res.body.issues[i].priority = IF n > 0 THEN "medium" ELSE "high"

\* a page whose description is the empty string has the Meta issue of
\* priority high
C24_Witness ==
    /\ Successful
    /\ MetaTable[doc.meta] = <<<<>>>>
    /\ \E i \in MetaIssues : res.body.issues[i].priority = "high"

(***************************************************************************)
(* The empty city                                                          *)
(***************************************************************************)
IssueCategories == {res.body.issues[i].category : i \in DOMAIN res.body.issues}

CityContentIssues ==
    {i \in DOMAIN res.body.issues : /\ res.body.issues[i].category = "Content"
                                    /\ res.body.issues[i].priority = "critical"}

\* C26: when the first comma-segment of the location is empty once trimmed
\* (location ", PA", which the validation of the endpoint lets through), the
\* city is the empty string and, whatever the page, the checks title-has-
\* city and city-in-content pass, and H1-has-city passes whenever there is
\* an H1: they earn their 20, 30 and 15 points, raise no issue, and the two
\* whatsWorking entries are present.
C26_EmptyCityPassesCityChecks ==
    (Successful /\ trim(split(query["location"], ",")[1]) = <<>>) =>
        LET on     == res.body.checks.onPage
            loc    == res.body.checks.local
            hasH1  == H1Table[doc.h1s] # <<>>
        IN  /\ on.titleHasCity /\ loc.cityInContent /\ on.h1HasCity = hasH1
            /\ res.body.scores.onPage =
                   20 + (IF hasH1 THEN 15 ELSE 0)
                      + (IF on.titleOptimized THEN 20 ELSE 0)
                      + (IF on.metaOptimized THEN 15 ELSE 0)
                      + (IF on.h1Present THEN 15 ELSE 0)
                      + (IF on.contentLength THEN 15 ELSE 0)
            /\ res.body.scores.local =
                   30 + (IF loc.hasPhone /\ loc.hasAddress THEN 25 ELSE 0)
                      + (IF loc.hasLocalSchema THEN 25 ELSE 0)
            /\ "Local SEO" \notin IssueCategories
            /\ CityContentIssues = {}
            /\ ("H1 Local" \in IssueCategories) = ~hasH1
            /\ SubSeq(res.body.whatsWorking, 1, 2)
                   = <<"Title includes city", "Content has location">>

\* a page that names no city at all (its HTML is <p>hi</p>, its title and
\* its H1 are without a place name) has been analysed for the location
\* ", PA" and has the points of the three city checks
C26_Witness ==
    /\ Successful
    /\ query["location"] = <<",", " ", "P", "A">>
    /\ HtmlTable[doc.html] = <<"<", "p", ">", "h", "i", "<", "/", "p", ">">>
    /\ doc.title = 2 /\ doc.h1s = 3
    /\ res.body.scores.local = 30
    /\ res.body.checks.onPage.h1HasCity

(***************************************************************************)
(* The values the scores can take                                          *)
(***************************************************************************)
LocalScoreValues == {0, 25, 30, 50, 55, 80}

\* C27: in every successful Report the local sub-score is one of 0, 25, 30,
\* 50, 55 and 80, the technical sub-score is 50 or 85, the gbp sub-score is
\* 0 or 100, and the overall score is at least 8 and at most 91.
C27_ScoreValues ==
    Successful =>
        /\ res.body.scores.local \in LocalScoreValues
        /\ res.body.scores.technical \in {50, 85}
        /\ res.body.scores.gbp \in {0, 100}
        /\ res.body.scores.overall >= 8
        /\ res.body.scores.overall <= 91

\* the Report with the lowest overall score: no check passes, the URL is
\* not an HTTPS one and no listing is found
C27_Witness ==
    /\ Successful
    /\ res.body.scores =
           [overall |-> 8, onPage |-> 0, local |-> 0, technical |-> 50, gbp |-> 0]
    /\ Len(res.body.issues) = 11

(***************************************************************************)
(* The two kinds of Report                                                 *)
(***************************************************************************)
ReportFields == DOMAIN newResults(<<>>, <<>>, <<>>, "")

\* the messages of the failures that end an analysis in the catch of line 137
FailureMessages == FetchErrors \cup {toLowerCaseError(data) : data \in NonTextData}

C29_Original ==
    /\ headless.pc = "returned" => headless.browser # "open"
    /\ headless.pc = "idle" => headless.open = 0

(***************************************************************************)
(* The listing lookup                                                      *)
(***************************************************************************)
KeyConfigured == apiKey # <<>> /\ apiKey[1] # <<>>

\* a response of the places API that carries no result: an empty results
\* array, or no results array at all
EmptyAnswer(a) == "error" \notin DOMAIN a /\ ("results" \in DOMAIN a => a.results = <<>>)

FullAnswer(a) == "error" \notin DOMAIN a /\ "results" \in DOMAIN a /\ a.results # <<>>

FailedAnswer(a) == "error" \in DOMAIN a

\* the queries of r sent so far: those up to the one in flight
SentQueries(r) == SubSeq(r.queries, 1, r.qi)

\* C23: with a key configured, checkGBP sends at most three queries (the
\* name as given and two normalized forms, each followed by the city), one
\* at a time; the next one is sent only when the previous one was answered
\* without a result; the first answer with results ends the lookup with
\* found:true and the name, rating, review count and address of the first
\* entry of that answer; three answers without a result give found:false.
C23_SequentialQueries ==
    LET r == reqs["r1"]
        n == Len(r.answers)
    IN  (KeyConfigured /\ r.lookup # "none") =>
            /\ Len(r.queries) = 3
            /\ r.queries[1] = r.query["businessName"] \o <<" ">> \o cityOf(r.query["location"])
            /\ r.qi \in 1..3
            /\ \A k \in 1..(n - 1) : EmptyAnswer(r.answers[k])
            /\ r.lookup = "pending" =>
                  /\ r.pc = "lookup" /\ Len(SentQueries(r)) = n + 1
                  /\ \A k \in 1..n : EmptyAnswer(r.answers[k])
            /\ r.lookup = "found" =>
                  /\ r.pc = "responded" /\ Len(SentQueries(r)) = n
                  /\ FullAnswer(r.answers[n])
                  /\ LET place == r.answers[n].results[1]
                     IN  r.res.body.googleBusinessProfile =
                             [found |-> TRUE, name |-> place.name, rating |-> place.rating,
                              reviews |-> place.user_ratings_total,
                              address |-> place.formatted_address]
            /\ r.lookup = "empty" =>
                  /\ r.pc = "responded" /\ Len(SentQueries(r)) = 3 /\ n = 3
                  /\ EmptyAnswer(r.answers[3])
                  /\ r.res.body.googleBusinessProfile = [found |-> FALSE]

\* the third of three different queries has been answered with two entries,
\* after an empty array and a response without an array, and the listing
\* reported is the first of the two entries
C23_Witness ==
    LET r == reqs["r1"]
    IN  /\ KeyConfigured /\ r.lookup = "found" /\ Len(r.answers) = 3
        /\ Cardinality(Range(r.queries)) = 3
        /\ "results" \in DOMAIN r.answers[1] /\ "results" \notin DOMAIN r.answers[2]
        /\ Len(r.answers[3].results) = 2
        /\ r.answers[3].results[1] # r.answers[3].results[2]
        /\ r.res.body.googleBusinessProfile.name = r.answers[3].results[1].name

\* C25: a listing query that rejects ends the lookup at once: checkGBP
\* returns found:false with the message of the error, no further query is
\* sent, whichever forms of the name had not been tried, and the analysis
\* ends with the full Report.
C25_QueryErrorEndsLookup ==
    LET r == reqs["r1"]
        n == Len(r.answers)
    IN  /\ \A k \in 1..(n - 1) : ~FailedAnswer(r.answers[k])
        /\ (n > 0 /\ FailedAnswer(r.answers[n])) =>
              /\ r.lookup = "error" /\ r.pc = "responded"
              /\ Len(SentQueries(r)) = n
              /\ r.res.status = 200
              /\ r.res.body.googleBusinessProfile =
                     [found |-> FALSE, error |-> r.answers[n].error]
              /\ r.res.body.scores.gbp = 0
        /\ r.lookup = "error" => n > 0 /\ FailedAnswer(r.answers[n])

\* the first query has timed out and the two other forms were never sent
C25_Witness ==
    LET r == reqs["r1"]
    IN  /\ r.lookup = "error" /\ Len(r.answers) = 1 /\ r.qi = 1
        /\ r.answers[1] = [error |-> "timeout of 5000ms exceeded"]
        /\ Cardinality(Range(r.queries) \ {r.queries[1]}) = 2
        /\ "issues" \in DOMAIN r.res.body

(***************************************************************************)
(* Properties of several analyses                                          *)
(***************************************************************************)
\* request i has been answered with a full Report
SuccessfulReq(i) ==
    /\ reqs[i].pc = "responded" /\ reqs[i].res.status = 200
    /\ "issues" \in DOMAIN reqs[i].res.body

IsNap(issue) == issue.category = "NAP"

NotNap(issue) == issue.category # "NAP"

\* the analyses i and j differ only in that the page of i fails the
\* phone-and-address check and the page of j passes it: same request, same
\* listing responses, same title, description, H1s and body text, and the
\* same outcome of every other check
DifferInNapOnly(i, j) ==
    /\ SuccessfulReq(i) /\ SuccessfulReq(j)
    /\ reqs[i].query = reqs[j].query
    /\ reqs[i].answers = reqs[j].answers
    /\ \A f \in DocFields \ {"html"} : reqs[i].doc[f] = reqs[j].doc[f]
    /\ LET p == ChecksOf(reqs[i].query, reqs[i].doc, reqs[i].url, reqs[i].lookup = "found")
           q == ChecksOf(reqs[j].query, reqs[j].doc, reqs[j].url, reqs[j].lookup = "found")
       IN  /\ ~p[8] /\ q[8]
           /\ \A k \in TableRows \ {8} : p[k] = q[k]

\* C14: of two analyses that differ only in that the first page fails the
\* phone-and-address check and the second passes it, the second has a local
\* sub-score exactly 25 higher, and its issue list is the first's without
\* the single NAP issue.
C14_NapMonotone ==
    \A i, j \in Requests :
        DifferInNapOnly(i, j) =>
            /\ reqs[j].res.body.scores.local = reqs[i].res.body.scores.local + 25
            /\ Len(SelectSeq(reqs[i].res.body.issues, IsNap)) = 1
            /\ reqs[j].res.body.issues = SelectSeq(reqs[i].res.body.issues, NotNap)

\* a page with a phone number only and the same page with a phone number
\* and an address have been analysed
C14_Witness ==
    \E i, j \in Requests :
        /\ DifferInNapOnly(i, j)
        /\ hasPhone(DocOf(reqs[i].doc).html) /\ ~hasAddress(DocOf(reqs[i].doc).html)
        /\ reqs[i].res.body.scores.local = 0

\* the invocations i and j had the same arguments, the same fetch outcome
\* and the same listing responses
SameInputs(i, j) ==
    /\ reqs[i].query = reqs[j].query
    /\ reqs[i].fetched = reqs[j].fetched
    /\ reqs[i].doc = reqs[j].doc
    /\ reqs[i].fetchError = reqs[j].fetchError
    /\ reqs[i].answers = reqs[j].answers

\* a Report without its time of analysis
Timeless(body) ==
    IF "analyzedAt" \in DOMAIN body THEN [body EXCEPT !.analyzedAt = ""] ELSE body

\* C15: two invocations of analyzeWebsite with the same url, businessName
\* and location, the same fetched HTML and the same listing responses give
\* Reports that are equal in every field except analyzedAt.
C15_Idempotent ==
    \A i, j \in Requests :
        (reqs[i].pc = "responded" /\ reqs[j].pc = "responded" /\ SameInputs(i, j)) =>
            /\ reqs[i].res.status = reqs[j].res.status
            /\ Timeless(reqs[i].res.body) = Timeless(reqs[j].res.body)

\* two analyses of the same page at different times have ended, after a
\* listing lookup with three queries
C15_Witness ==
    \E i, j \in Requests :
        /\ SuccessfulReq(i) /\ SuccessfulReq(j) /\ SameInputs(i, j)
        /\ reqs[i].res.body.analyzedAt # reqs[j].res.body.analyzedAt
        /\ Len(reqs[i].answers) = 3

\* the request r run alone on the listing responses that follow
RECURSIVE lookupAlone(_, _)
lookupAlone(r, answers) ==
    IF answers = <<>> \/ r.pc # "lookup" THEN r
    ELSE lookupAlone(IF "error" \in DOMAIN Head(answers)
                     THEN queryFailed(r, Head(answers).error)
                     ELSE queryAnswered(r, Head(answers)),
                     Tail(answers))

\* the request r run alone, from its arrival on, with the query, the time,
\* the fetch outcome and the listing responses that r had
RunAlone(r) ==
    LET s == started(r.query, r.now)
    IN  IF s.pc = "responded" THEN s
        ELSE IF r.fetched = "failed" THEN fetchFailed(s, r.fetchError)
        ELSE IF r.fetched = "nottext" THEN fetchedNotText(s, r.fetchError)
        ELSE lookupAlone(fetchedPage(s, s.results, r.doc, apiKey), r.answers)

\* C19: requests that are handled at the same time share no state that
\* changes: however their steps are interleaved at the page fetch and the
\* listing queries, the response of each is the response it gets when it is
\* run alone with the same external responses.
C19_NoInterference ==
    \A i \in Requests :
        reqs[i].pc = "responded" => reqs[i].res = RunAlone(reqs[i]).res

\* a request has been answered with a full Report while another request,
\* for another city and with another page, is in its listing lookup
C19_Witness ==
    \E i, j \in Requests :
        /\ SuccessfulReq(i) /\ reqs[j].pc = "lookup"
        /\ reqs[i].query["location"] # reqs[j].query["location"]
        /\ reqs[i].doc # reqs[j].doc
        /\ reqs[i].res.body.issues # <<>>

====
